---- MODULE Spec2Model ----
(***************************************************************************)
(* memorybench: the resumable, checkpoint-driven multi-phase execution     *)
(* engine.  The model holds the run checkpoint (one PhaseState per         *)
(* question and phase), the batch executor ParallelExecutor.executeBatched *)
(* and the five phase runners (ingest, indexing, search, answer,           *)
(* evaluate) that drive it.                                                *)
(*                                                                         *)
(* Timestamps (new Date().toISOString()) are modelled by one value, Now:   *)
(* the model keeps which fields a PhaseState holds, not the wall clock.    *)
(* Durations (Date.now() differences) are left out.                        *)
(***************************************************************************)
EXTENDS Integers, Sequences, FiniteSets, TLC

\* ---------------------------------------------------------------- bounds
NumQuestions == 2
NumSessions == 2

\* ------------------------------------------------------------- constants
RATE_LIMIT_MS == 1000

\* new Date().toISOString()
Now == "now"

\* The largest concurrency a configuration holds: a batch never has more
\* tasks than there are questions.
MaxConcurrency == NumQuestions

PhaseOrder == <<"ingest", "indexing", "search", "answer", "evaluate">>

PhaseIds == {"ingest", "indexing", "search", "answer", "evaluate"}

\* benchmark.getQuestions(): the ordered list of question identifiers.
benchmarkQuestions == [i \in 1..NumQuestions |-> i]

QuestionIds == 1..NumQuestions

\* benchmark.getHaystackSessions(q): the ordered sessions of a question.
getHaystackSessions(q) == [i \in 1..NumSessions |-> i]

\* checkpoint.dataSourceRunId: the same in every invocation of a run.
dataSourceRunId == "run"

\* `${question.questionId}-${checkpoint.dataSourceRunId}`
containerTag(questionId) == <<questionId, dataSourceRunId>>

\* provider.ingest([session], {containerTag}).documentIds: one document per
\* session, named after the container (question) and the session.
providerDocumentIds(q, s) == << <<q, s>> >>

\* provider.ingest([session], {containerTag}).taskIds: the first session of a
\* question is ingested by an asynchronous task, the others return none.
providerTaskIds(q, s) == IF s = 1 THEN << <<"task", q, s>> >> ELSE <<>>

\* provider.search(question, {containerTag, ...}): nothing is retrieved for
\* the first question, two results for every other one.
providerSearch(q) == IF q = 1 THEN <<>> ELSE [r \in 1..2 |-> <<q, r>>]

\* The relevance judgment of the collaborator: the second result of an
\* even-numbered question is relevant, no other result is.
isRelevant(q, result) == q % 2 = 0 /\ result[2] = 2

\* The window of the retrieval metrics.
K == 10

\* A value that is undefined (an absent result).
NoMetrics == [undefined |-> TRUE]

VARIABLES
    questions,    \* checkpoint.questions: question id -> QuestionCheckpoint
    files,        \* the search result artifacts that exist on disk
    active,       \* a run is executing
    stop,         \* the per-run stop signal read by shouldStop(runId)
    phaseIdx,     \* the orchestrator's position in PhaseOrder (6: past the last)
    pc,           \* position of executeBatched
    phaseName,    \* executeBatched: options.phaseName
    items,        \* executeBatched: options.items
    concurrency,  \* executeBatched: options.concurrency
    rateLimitMs,  \* executeBatched: options.rateLimitMs
    batchIdx,     \* executeBatched: loop variable
    batchOffset,  \* next offset of batch.map
    tasks,        \* the task promises created so far, in dispatch order; each
                  \* records the sessions it passed to provider.ingest (calls)
                  \* and its place in the order of settling (settledAs)
    allResults,   \* executeBatched: allResults
    thrown,       \* the error the run ended with
    resolvePhase,   \* resolveParallelism: the argument phase
    callerConfig,   \* resolveParallelism: the argument cliConfig
    providerConfig, \* resolveParallelism: the argument providerDefault
    resolved,       \* resolveParallelism: whether it was called, and its result
    keepErrorText,  \* whether the checkpoint of this behaviour keeps the text
                    \* of a phase's last error (see RecordFailed)
    questionIds,    \* the phase runners' argument questionIds (all the
                    \* questions when the caller gives none)
    backend,        \* the sessions the provider's backend holds, per question
    batchCalls,     \* the calls of onBatchStart and onBatchComplete made by
                    \* the current invocation of executeBatched, in order
    poll,           \* GraphitiProvider.awaitIndexing: the call's position, its
                    \* locals, and the episodes the backend holds for the group
    provider,       \* the provider of the run: "hindsight", "graphiti", or
                    \* "generic" for a provider known by its interface only
    groupIds        \* the container tags in the provider instance's map
                    \* (bankIds of Hindsight, groupIds of Graphiti)

vars == <<questions, files, active, stop, phaseIdx, pc, phaseName, items,
          concurrency, rateLimitMs, batchIdx, batchOffset, tasks, allResults, thrown,
          resolvePhase, callerConfig, providerConfig, resolved, keepErrorText,
          questionIds, backend, batchCalls, provider, groupIds, poll>>

\* What the steps of a run leave alone: the arguments of the resolver call
\* under study, and the choice of keeping the error texts.
envVars == <<resolvePhase, callerConfig, providerConfig, resolved, keepErrorText,
             questionIds, provider, poll>>

\* ---------------------------------------------------- retrieval metrics

\* The ranks, within the top-K window, of the results judged relevant.
RelevantRanks(q, results) ==
    {r \in 1..Len(results) : r <= K /\ isRelevant(q, results[r])}

\* The smallest element of a non-empty set of ranks.
FirstRank(ranks) == CHOOSE r \in ranks : \A o \in ranks : r <= o

\* Mutant: an empty retrieved list yields metrics of zero.
calculateRetrievalMetrics_ZeroOnEmpty(q, results) ==
    IF RelevantRanks(q, results) = {}
    THEN [k |-> K, hitAtK |-> FALSE, mrr |-> [num |-> 0, den |-> 1]]
    ELSE [k |-> K, hitAtK |-> TRUE,
          mrr |-> [num |-> 1, den |-> FirstRank(RelevantRanks(q, results))]]

\* calculateRetrievalMetrics(model, question, groundTruth, searchResults):
\* nothing for an empty list; otherwise k, hitAtK and mrr, the reciprocal
\* rank of the first relevant result (a fraction num/den), 0 if there is none.
calculateRetrievalMetrics(q, results) ==
    IF Len(results) = 0 THEN NoMetrics
    ELSE IF RelevantRanks(q, results) = {}
    THEN [k |-> K, hitAtK |-> FALSE, mrr |-> [num |-> 0, den |-> 1]]
    ELSE [k |-> K, hitAtK |-> TRUE,
          mrr |-> [num |-> 1, den |-> FirstRank(RelevantRanks(q, results))]]

\* -------------------------------------------------------------- providers

\* `memorybench_${options.containerTag.replace(/[^a-zA-Z0-9_-]/g, "_")}`: the
\* bank or group of a container tag (the tags of the model, a question
\* identifier and the run identifier, keep their characters).
groupId(tag) == <<"memorybench", tag>>

\* What provider.ingest([session], {containerTag}) returns.  Hindsight and
\* Graphiti return the session's identifier as document when the backend
\* accepted the write and no document when it answered with an error (they
\* log and go on); Graphiti also returns the group as task identifier.
ingestReturn(q, session, accepted) ==
    CASE provider = "hindsight" ->
            [documentIds |-> IF accepted THEN <<session>> ELSE <<>>,
             taskIds |-> <<>>]
      [] provider = "graphiti" ->
            [documentIds |-> IF accepted THEN <<session>> ELSE <<>>,
             taskIds |-> <<groupId(containerTag(q))>>]
      [] OTHER ->
            [documentIds |-> providerDocumentIds(q, session),
             taskIds |-> providerTaskIds(q, session)]

\* this.bankIds.set(options.containerTag, bankId) / this.groupIds.set(...)
registered(ids, q) ==
    IF provider \in {"hindsight", "graphiti"} THEN ids \cup {containerTag(q)} ELSE ids

\* ------------------------------------------------------------ checkpoint

\* { ...current, ...updates }: keyed merge of the given fields.
Merge(current, updates) ==
    [f \in (DOMAIN current) \cup (DOMAIN updates) |->
        IF f \in DOMAIN updates THEN updates[f] ELSE current[f]]

\* Mutant: the update is applied to the phase entry of every question.
updatePhase_EveryQuestion(qs, questionId, phase, updates) ==
    [q \in DOMAIN qs |-> [qs[q] EXCEPT !.phases[phase] = Merge(@, updates)]]

\* CheckpointManager.updatePhase(checkpoint, questionId, phase, updates)
updatePhase(qs, questionId, phase, updates) ==
    [qs EXCEPT ![questionId].phases[phase] = Merge(@, updates)]

\* CheckpointManager.updateSessions(checkpoint, questionId, sessionsMetadata)
updateSessions(qs, questionId, sessionsMetadata) ==
    [qs EXCEPT ![questionId].sessions = sessionsMetadata]

\* CheckpointManager.getPhaseStatus(checkpoint, questionId, phase)
getPhaseStatus(qs, questionId, phase) ==
    IF questionId \in DOMAIN qs THEN qs[questionId].phases[phase].status ELSE "pending"

Has(rec, f) == f \in DOMAIN rec

\* A question's checkpoint entry when the run is created.
InitialQuestion ==
    [sessions |-> <<>>,
     phases |-> [ingest |-> [status |-> "pending", completedSessions |-> <<>>],
                 indexing |-> [status |-> "pending"],
                 search |-> [status |-> "pending"],
                 answer |-> [status |-> "pending"],
                 evaluate |-> [status |-> "pending"]]]

\* ------------------------------------------------------------- resolver

\* An absent configuration object (cliConfig or providerDefault undefined).
NoConfig == [undefined |-> TRUE]

\* cfg[key] !== undefined, for a configuration that may itself be absent.
Defined(cfg, key) == cfg # NoConfig /\ key \in DOMAIN cfg

\* The concurrency the provider class declares (its field concurrency).
declaredConcurrency ==
    CASE provider = "hindsight" -> [default |-> 10, ingest |-> 5]
      [] provider = "graphiti" -> [default |-> 5, ingest |-> 3]
      [] OTHER -> NoConfig

\* provider.defaultParallelism, the field the phase runners read: Hindsight
\* and Graphiti declare no field of that name.
defaultParallelism == NoConfig

\* Mutant: a provider per-phase value is looked at before the caller default.
resolveParallelism_ProviderPhaseFirst(phase, cliConfig, providerDefault) ==
    IF Defined(cliConfig, phase) THEN cliConfig[phase]
    ELSE IF Defined(providerDefault, phase) THEN providerDefault[phase]
    ELSE IF Defined(cliConfig, "default") THEN cliConfig["default"]
    ELSE IF Defined(providerDefault, "default") THEN providerDefault["default"]
    ELSE 1

resolveParallelism(phase, cliConfig, providerDefault) ==
    IF Defined(cliConfig, phase) THEN cliConfig[phase]
    ELSE IF Defined(cliConfig, "default") THEN cliConfig["default"]
    ELSE IF Defined(providerDefault, phase) THEN providerDefault[phase]
    ELSE IF Defined(providerDefault, "default") THEN providerDefault["default"]
    ELSE 1

\* The value of `resolved` before the call.
NotResolved == [called |-> FALSE, value |-> 1]

\* The parallelism configurations a run of phase p is given: absent, or any
\* assignment of 0..MaxConcurrency to a subset of {default, p}.
ConfigsFor(p) ==
    {NoConfig} \cup
    UNION {[D -> 0..MaxConcurrency] : D \in SUBSET {"default", p}}

\* The concurrency a runner of phase p may resolve: with a provider known
\* by its interface only, over every caller configuration and every provider
\* default; with Hindsight or Graphiti, from checkpoint.parallelism (the
\* caller's configuration) and provider.defaultParallelism.
ResolvedConcurrency(p) ==
    IF provider = "generic"
    THEN {resolveParallelism(p, cliConfig, providerDefault) :
             cliConfig \in ConfigsFor(p), providerDefault \in ConfigsFor(p)}
    ELSE {resolveParallelism(p, callerConfig, defaultParallelism)}

\* ------------------------------------------------------- phase runners

\* Mutant: the ingest runner's filter takes every question.
IngestIncluded_Always(qs, q) == TRUE

\* runIngestPhase: pendingQuestions filter.
IngestIncluded(qs, q) ==
    getPhaseStatus(qs, q, "ingest") # "completed"

\* Mutant: the indexing runner takes only the questions never started.
IndexingIncluded_PendingOnly(qs, q) ==
    /\ qs[q].phases.ingest.status = "completed"
    /\ qs[q].phases.indexing.status = "pending"

\* runIndexingPhase: toIndex filter.
IndexingIncluded(qs, q) ==
    /\ qs[q].phases.ingest.status = "completed"
    /\ qs[q].phases.indexing.status # "completed"

\* Mutant: the search runner's filter forgets the status test.
SearchIncluded_Again(qs, q) ==
    getPhaseStatus(qs, q, "indexing") = "completed"

\* runSearchPhase: pendingQuestions filter.
SearchIncluded(qs, q) ==
    /\ getPhaseStatus(qs, q, "search") # "completed"
    /\ getPhaseStatus(qs, q, "indexing") = "completed"

\* Mutant: the answer runner's filter forgets the status test.
AnswerIncluded_NoStatus(qs, fs, q) ==
    /\ getPhaseStatus(qs, q, "search") = "completed"
    /\ Has(qs[q].phases.search, "resultFile")
    /\ qs[q].phases.search.resultFile \in fs

\* runAnswerPhase: pendingQuestions filter (resultFile && existsSync).
AnswerIncluded(qs, fs, q) ==
    /\ getPhaseStatus(qs, q, "answer") # "completed"
    /\ getPhaseStatus(qs, q, "search") = "completed"
    /\ Has(qs[q].phases.search, "resultFile")
    /\ qs[q].phases.search.resultFile \in fs

\* Mutant: the evaluate runner's filter forgets the hypothesis.
EvaluateIncluded_AnyHypothesis(qs, q) ==
    /\ getPhaseStatus(qs, q, "evaluate") # "completed"
    /\ getPhaseStatus(qs, q, "answer") = "completed"

\* runEvaluatePhase: pendingQuestions filter (a non-empty hypothesis).
EvaluateIncluded(qs, q) ==
    /\ getPhaseStatus(qs, q, "evaluate") # "completed"
    /\ getPhaseStatus(qs, q, "answer") = "completed"
    /\ Has(qs[q].phases.answer, "hypothesis")
    /\ qs[q].phases.answer.hypothesis # ""

\* The inclusion predicate of each phase runner's working set.
Included(qs, fs, phase, q) ==
    CASE phase = "ingest" -> IngestIncluded(qs, q)
      [] phase = "indexing" -> IndexingIncluded(qs, q)
      [] phase = "search" -> SearchIncluded(qs, q)
      [] phase = "answer" -> AnswerIncluded(qs, fs, q)
      [] phase = "evaluate" -> EvaluateIncluded(qs, q)

\* Mutant: the runner dispatches every benchmark question.
pendingQuestions_All(qs, fs, phase) == benchmarkQuestions

\* questionIds ? questions.filter(q => questionIds.includes(q.questionId))
\*             : questions
targetQuestions == SelectSeq(benchmarkQuestions, LAMBDA q : q \in questionIds)

\* targetQuestions.filter(...): the working set, in benchmark order.
pendingQuestions(qs, fs, phase) ==
    SelectSeq(targetQuestions, LAMBDA q : Included(qs, fs, phase, q))

\* Mutant: every phase runner passes the ingest delay.
PhaseRateLimit_Always(phase) == RATE_LIMIT_MS

\* The inter-batch delay a phase runner passes to the executor.
PhaseRateLimit(phase) == IF phase = "ingest" THEN RATE_LIMIT_MS ELSE 0

\* ------------------------------------------------------------ executor

NoValue == [questionId |-> 0]

NoError == [kind |-> "none", questionId |-> 0]

batchSize == concurrency

\* Math.ceil(items.length / batchSize)
totalBatches == (Len(items) + batchSize - 1) \div batchSize

batchStart == batchIdx * batchSize

Min(a, b) == IF a < b THEN a ELSE b

\* Mutant: the slice end is not clamped to one batch.
batchEnd_NoMin == Len(items)

batchEnd == Min(batchStart + batchSize, Len(items))

\* The promises of the current batch, in input order (what Promise.all yields).
batchResults == SubSeq(tasks, batchStart + 1, Len(tasks))

Settled(t) == t.st \in {"ok", "err"}

\* The number of task promises that have settled so far.
NumSettled(ts) == Cardinality({k \in 1..Len(ts) : Settled(ts[k])})

\* ---------------------------------------------------------------- Init

\* No call of GraphitiProvider.awaitIndexing has been made.
NotPolling ==
    [pc |-> "idle", result |-> [documentIds |-> <<>>], episodes |-> 0,
     stableCount |-> 0, lastEpisodeCount |-> -1, backoffMs |-> 0, seen |-> <<>>]

\* A freshly created run checkpoint, no run executing.
NewRun ==
    /\ questions = [q \in QuestionIds |-> InitialQuestion]
    /\ files = {}
    /\ active = FALSE
    /\ stop = FALSE
    /\ phaseIdx = 1
    /\ pc = "idle"
    /\ phaseName = "none"
    /\ items = <<>>
    /\ concurrency = 1
    /\ rateLimitMs = 0
    /\ batchIdx = 0
    /\ batchOffset = 0
    /\ tasks = <<>>
    /\ allResults = <<>>
    /\ thrown = NoError
    /\ backend = [q \in QuestionIds |-> {}]
    /\ batchCalls = <<>>

Init ==
    /\ NewRun
    /\ resolvePhase = "ingest"
    /\ callerConfig = NoConfig
    /\ providerConfig = NoConfig
    /\ resolved = NotResolved
    /\ provider = "generic"
    /\ groupIds = {}
    /\ poll = NotPolling
    /\ keepErrorText = FALSE
    /\ questionIds = QuestionIds

\* The executor's variables when no invocation is in progress.
ExecReset ==
    /\ pc' = "idle"
    /\ phaseName' = "none"
    /\ items' = <<>>
    /\ concurrency' = 1
    /\ rateLimitMs' = 0
    /\ batchIdx' = 0
    /\ batchOffset' = 0
    /\ tasks' = <<>>
    /\ allResults' = <<>>
    /\ thrown' = NoError
    /\ batchCalls' = <<>>

\* The orchestrator is invoked (first run, or a resume with the same run id).
StartRun ==
    /\ ~active
    /\ active' = TRUE
    /\ stop' = FALSE
    /\ phaseIdx' = 1
    /\ ExecReset
    /\ UNCHANGED <<questions, files>>
    /\ UNCHANGED envVars
    /\ UNCHANGED groupIds
    /\ UNCHANGED backend

\* Mutant: the phase runner enters the executor with an empty working set.
BeginPhase_AlwaysExecutes ==
    /\ active
    /\ pc \in {"idle", "returned"}
    /\ phaseIdx <= Len(PhaseOrder)
    /\ LET phase == PhaseOrder[phaseIdx]
           pending == pendingQuestions(questions, files, phase)
       IN  \E c \in ResolvedConcurrency(phase) :
                /\ phaseName' = phase
                /\ items' = pending
                /\ concurrency' = c
                /\ rateLimitMs' = PhaseRateLimit(phase)
                /\ batchIdx' = 0
                /\ batchOffset' = 0
                /\ tasks' = <<>>
                /\ allResults' = <<>>
                /\ batchCalls' = <<>>
                /\ IF Len(pending) = 0
                   THEN /\ pc' = "returned"
                        /\ phaseIdx' = phaseIdx + 1
                        /\ thrown' = NoError
                        /\ UNCHANGED active
                   ELSE IF c <= 0
                   THEN /\ pc' = "thrown"
                        /\ thrown' = [kind |-> "config", questionId |-> 0]
                        /\ active' = FALSE
                        /\ UNCHANGED phaseIdx
                   ELSE /\ pc' = "check"
                        /\ thrown' = NoError
                        /\ UNCHANGED <<active, phaseIdx>>
    /\ UNCHANGED <<questions, files, stop>>
    /\ UNCHANGED envVars
    /\ UNCHANGED groupIds
    /\ UNCHANGED backend

\* The orchestrator calls the next phase runner, which computes its working
\* set and, unless it is empty, resolves the concurrency and enters
\* executeBatched (up to the batch loop).
BeginPhase ==
    /\ active
    /\ pc \in {"idle", "returned"}
    /\ phaseIdx <= Len(PhaseOrder)
    /\ LET phase == PhaseOrder[phaseIdx]
           pending == pendingQuestions(questions, files, phase)
       IN  IF Len(pending) = 0
           THEN /\ phaseIdx' = phaseIdx + 1
                /\ ExecReset
                /\ UNCHANGED active
           ELSE \E c \in ResolvedConcurrency(phase) :
                /\ phaseName' = phase
                /\ items' = pending
                /\ concurrency' = c
                /\ rateLimitMs' = PhaseRateLimit(phase)
                /\ batchIdx' = 0
                /\ batchOffset' = 0
                /\ tasks' = <<>>
                /\ allResults' = <<>>
                /\ batchCalls' = <<>>
                /\ UNCHANGED phaseIdx
                /\ IF c <= 0
                   THEN /\ pc' = "thrown"
                        /\ thrown' = [kind |-> "config", questionId |-> 0]
                        /\ active' = FALSE
                   ELSE /\ pc' = "check"
                        /\ thrown' = NoError
                        /\ UNCHANGED active
    /\ UNCHANGED <<questions, files, stop>>
    /\ UNCHANGED envVars
    /\ UNCHANGED groupIds
    /\ UNCHANGED backend

\* Every phase runner has returned: the run ends normally.
FinishRun ==
    /\ active
    /\ pc \in {"idle", "returned"}
    /\ phaseIdx > Len(PhaseOrder)
    /\ active' = FALSE
    /\ UNCHANGED <<questions, files, stop, phaseIdx, pc, phaseName, items,
                   concurrency, rateLimitMs, batchIdx, batchOffset, tasks,
                   allResults, thrown>>
    /\ UNCHANGED envVars
    /\ UNCHANGED groupIds
    /\ UNCHANGED backend
    /\ UNCHANGED batchCalls

\* Mutant: the batch loop never looks at the stop signal.
CheckStop_Ignored ==
    /\ pc = "check"
    /\ pc' = "dispatch"
    /\ batchCalls' = Append(batchCalls,
           <<"onBatchStart", batchIdx, batchEnd - batchStart>>)
    /\ batchOffset' = 0
    /\ UNCHANGED <<questions, files, active, stop, phaseIdx, phaseName, items,
                   concurrency, rateLimitMs, batchIdx, tasks, allResults, thrown>>
    /\ UNCHANGED envVars
    /\ UNCHANGED groupIds
    /\ UNCHANGED backend

\* Mutant: a stop is reported as the failure of the next item.
CheckStop_AsFailure ==
    /\ pc = "check"
    /\ IF stop
       THEN /\ pc' = "thrown"
            /\ UNCHANGED batchCalls
            /\ thrown' = [kind |-> "task", questionId |-> items[batchStart + 1]]
            /\ active' = FALSE
            /\ questions' = updatePhase(questions, items[batchStart + 1], phaseName,
                                        [status |-> "failed"])
       ELSE /\ pc' = "dispatch"
            /\ batchCalls' = Append(batchCalls,
                   <<"onBatchStart", batchIdx, batchEnd - batchStart>>)
            /\ UNCHANGED <<thrown, active, questions>>
    /\ batchOffset' = 0
    /\ UNCHANGED <<files, stop, phaseIdx, phaseName, items,
                   concurrency, rateLimitMs, batchIdx, tasks, allResults>>
    /\ UNCHANGED envVars
    /\ UNCHANGED groupIds
    /\ UNCHANGED backend

\* The head of the batch loop: the stop check, then the batch is sliced.
CheckStop ==
    /\ pc = "check"
    /\ IF stop
       THEN /\ pc' = "thrown"
            /\ UNCHANGED batchCalls
            /\ thrown' = [kind |-> "stop", questionId |-> 0]
            /\ active' = FALSE
       ELSE /\ pc' = "dispatch"
            /\ batchCalls' = Append(batchCalls,
                   <<"onBatchStart", batchIdx, batchEnd - batchStart>>)
            /\ UNCHANGED <<thrown, active>>
    /\ batchOffset' = 0
    /\ UNCHANGED <<questions, files, stop, phaseIdx, phaseName, items,
                   concurrency, rateLimitMs, batchIdx, tasks, allResults>>
    /\ UNCHANGED envVars
    /\ UNCHANGED groupIds
    /\ UNCHANGED backend

\* ---------------------------------------------------------- task bodies

\* sessions.map(s => ({sessionId, ...})): the session metadata of a question.
sessionsMetadata(q) ==
    [i \in 1..Len(getHaystackSessions(q)) |-> [sessionId |-> getHaystackSessions(q)[i]]]

Includes(seq, x) == \E i \in 1..Len(seq) : seq[i] = x

\* Mutant: the session loop does not skip the completed sessions.
RemainingSessions_All(qs, q) == getHaystackSessions(q)

\* The sessions of q the ingest loop still has to send, in session order.
RemainingSessions(qs, q) ==
    SelectSeq(getHaystackSessions(q),
              LAMBDA s : ~Includes(qs[q].phases.ingest.completedSessions, s))

\* result.taskIds?.length: the number of task identifiers of a result that
\* may hold none.
NumTaskIds(result) == IF Has(result, "taskIds") THEN Len(result.taskIds) ELSE 0

\* Mutant: a result without documents counts as empty whatever its tasks.
NothingToIndex_IgnoresTaskIds(qs, q) ==
    \/ ~Has(qs[q].phases.ingest, "ingestResult")
    \/ Len(qs[q].phases.ingest.ingestResult.documentIds) = 0

\* The indexing task's test for a question with nothing to index.
NothingToIndex(qs, q) ==
    \/ ~Has(qs[q].phases.ingest, "ingestResult")
    \/ /\ Len(qs[q].phases.ingest.ingestResult.documentIds) = 0
       /\ NumTaskIds(qs[q].phases.ingest.ingestResult) = 0

\* Mutant: the ingest task starts its list of completed sessions afresh.
IngestBegin_ResetsSessions(qs, q) ==
    updatePhase(updateSessions(qs, q, sessionsMetadata(q)), q, "ingest",
                [status |-> "in_progress", startedAt |-> Now,
                 completedSessions |-> <<>>])

\* The ingest task up to its first provider.ingest call: the session
\* metadata and in_progress are recorded.
IngestBegin(qs, q) ==
    updatePhase(updateSessions(qs, q, sessionsMetadata(q)), q, "ingest",
                [status |-> "in_progress", startedAt |-> Now])

\* The indexing task up to provider.awaitIndexing, or to its return when
\* there is nothing to index.
IndexingBegin(qs, q) ==
    IF NothingToIndex(qs, q)
    THEN updatePhase(qs, q, "indexing", [status |-> "completed", completedAt |-> Now])
    ELSE updatePhase(qs, q, "indexing", [status |-> "in_progress", startedAt |-> Now])

\* The search task up to provider.search.
SearchBegin(qs, q) ==
    updatePhase(qs, q, "search", [status |-> "in_progress", startedAt |-> Now])

\* The answer task up to generateText.
AnswerBegin(qs, q) ==
    updatePhase(qs, q, "answer", [status |-> "in_progress", startedAt |-> Now])

\* The evaluate task up to the judge and retrieval-metrics calls.
EvaluateBegin(qs, q) ==
    updatePhase(qs, q, "evaluate", [status |-> "in_progress", startedAt |-> Now])

\* A task's synchronous prefix, run by batch.map: the checkpoint after it.
TaskBegin(qs, phase, q) ==
    CASE phase = "ingest" -> IngestBegin(qs, q)
      [] phase = "indexing" -> IndexingBegin(qs, q)
      [] phase = "search" -> SearchBegin(qs, q)
      [] phase = "answer" -> AnswerBegin(qs, q)
      [] phase = "evaluate" -> EvaluateBegin(qs, q)

\* The collaborator calls of a task's synchronous prefix: the indexing task
\* with something to index calls provider.awaitIndexing(ingestResult,
\* question.containerTag).
FirstCalls(qs, phase, q) ==
    IF phase = "indexing" /\ ~NothingToIndex(qs, q)
    THEN << [ingestResult |-> qs[q].phases.ingest.ingestResult,
             containerTag |-> containerTag(q)] >>
    ELSE <<>>

\* Whether the task has already returned when its synchronous prefix ends.
TaskBeginSettles(qs, phase, q) == phase = "indexing" /\ NothingToIndex(qs, q)

\* The two calls the evaluate task starts before it suspends (judge.evaluate
\* and calculateRetrievalMetrics): "running", then "ok" or "err".  The tasks
\* of the other phases have none.
SubCall(phase) == IF phase = "evaluate" THEN "running" ELSE "none"

\* Mutant: the index of a task is its position within its batch.
globalIndex_BatchLocal == batchOffset

\* const globalIndex = batchStart + batchOffset
globalIndex == batchStart + batchOffset

\* batch.map(async (item, batchOffset) => ...): the next task of the batch is
\* created and runs up to its first suspension.
Dispatch ==
    /\ pc = "dispatch"
    /\ LET item == items[globalIndex + 1]
           context == [item |-> item, index |-> globalIndex, total |-> Len(items)]
           done == TaskBeginSettles(questions, phaseName, item)
       IN  /\ questions' = TaskBegin(questions, phaseName, item)
           /\ tasks' = Append(tasks,
                  [context |-> context,
                   st |-> IF done THEN "ok" ELSE "running",
                   result |-> IF done THEN [questionId |-> item] ELSE NoValue,
                   error |-> NoValue,
                   combinedResult |-> [documentIds |-> <<>>, taskIds |-> <<>>],
                   calls |-> FirstCalls(questions, phaseName, item),
                   judge |-> SubCall(phaseName),
                   metrics |-> SubCall(phaseName),
                   observed |-> IF done THEN <<"onTaskComplete">> ELSE <<>>,
                   settledAs |-> IF done THEN NumSettled(tasks) + 1 ELSE 0])
           /\ batchOffset' = batchOffset + 1
           /\ pc' = IF globalIndex + 1 = batchEnd THEN "await" ELSE "dispatch"
    /\ UNCHANGED <<files, active, stop, phaseIdx, phaseName, items, concurrency,
                   rateLimitMs, batchIdx, allResults, thrown>>
    /\ UNCHANGED envVars
    /\ UNCHANGED groupIds
    /\ UNCHANGED backend
    /\ UNCHANGED batchCalls

\* A task in flight: created, not settled, and the executor awaits the batch.
InFlight(i) ==
    /\ pc = "await"
    /\ i \in 1..Len(tasks)
    /\ tasks[i].st = "running"

\* The task's promise resolves with its result.
TaskSucceeds(i) ==
    [tasks EXCEPT ![i].st = "ok",
                  ![i].result = [questionId |-> tasks[i].context.item],
                  ![i].observed = Append(@, "onTaskComplete"),
                  ![i].settledAs = NumSettled(tasks) + 1]

\* Mutant: the error the task rethrows does not name the question.
TaskFails_Unnamed(i) ==
    [tasks EXCEPT ![i].st = "err",
                  ![i].error = [questionId |-> 0],
                  ![i].observed = Append(@, "onError"),
                  ![i].settledAs = NumSettled(tasks) + 1]

\* The task's catch block has recorded the failure and rethrown an error
\* naming the question.
TaskFails(i) ==
    [tasks EXCEPT ![i].st = "err",
                  ![i].error = [questionId |-> tasks[i].context.item],
                  ![i].observed = Append(@, "onError"),
                  ![i].settledAs = NumSettled(tasks) + 1]

\* Mutant: the catch block rethrows without recording the failure.
RecordFailed_Skipped(qs, phase, q) == qs

\* e instanceof Error ? e.message : String(e)
ErrorText == "error"

\* The failure path of every task body: the phase is recorded failed with the
\* text of the error.  The specifications with keepErrorText = FALSE observe
\* the checkpoint without that text: a phase that failed once and one that
\* never failed are then the same entry.
RecordFailed(qs, phase, q) ==
    IF keepErrorText
    THEN updatePhase(qs, q, phase, [status |-> "failed", error |-> ErrorText])
    ELSE updatePhase(qs, q, phase, [status |-> "failed"])

TaskFrame ==
    /\ UNCHANGED <<active, stop, phaseIdx, pc, phaseName, items, concurrency,
                   rateLimitMs, batchIdx, batchOffset, allResults, thrown,
                   batchCalls>>
    /\ UNCHANGED envVars

\* ingest: provider.ingest returns for the next remaining session; its ids
\* are accumulated and the session is appended to completedSessions.
IngestSession(i) ==
    /\ InFlight(i)
    /\ phaseName = "ingest"
    /\ LET q == tasks[i].context.item
           remaining == RemainingSessions(questions, q)
       IN  /\ Len(remaining) > 0
           /\ LET session == Head(remaining)
                  completedSessions ==
                      Append(questions[q].phases.ingest.completedSessions, session)
              IN  /\ tasks' = [tasks EXCEPT
                                   ![i].combinedResult =
                                       [documentIds |-> @.documentIds
                                                           \o ingestReturn(q, session, TRUE).documentIds,
                                        taskIds |-> @.taskIds
                                                           \o ingestReturn(q, session, TRUE).taskIds],
                                   ![i].calls = Append(@, session)]
                  /\ questions' = updatePhase(questions, q, "ingest",
                                      [completedSessions |-> completedSessions])
                  /\ backend' = [backend EXCEPT ![q] = @ \cup {session}]
                  /\ groupIds' = registered(groupIds, q)
    /\ UNCHANGED files
    /\ TaskFrame

\* Mutant: the task has the calls for all its remaining sessions in flight.
IngestAccepted_AnySession(i) ==
    /\ InFlight(i)
    /\ phaseName = "ingest"
    /\ LET q == tasks[i].context.item
           remaining == RemainingSessions(questions, q)
       IN  \E k \in 1..Len(remaining) :
              /\ remaining[k] \notin backend[q]
              /\ backend' = [backend EXCEPT ![q] = @ \cup {remaining[k]}]
    /\ UNCHANGED <<questions, files, tasks>>
    /\ TaskFrame
    /\ UNCHANGED groupIds

\* ingest: during the call of provider.ingest for the next remaining
\* session, the backend stores the session; the call has not returned.
IngestAccepted(i) ==
    /\ InFlight(i)
    /\ phaseName = "ingest"
    /\ LET q == tasks[i].context.item
           remaining == RemainingSessions(questions, q)
       IN  /\ Len(remaining) > 0
           /\ Head(remaining) \notin backend[q]
           /\ backend' = [backend EXCEPT ![q] = @ \cup {Head(remaining)}]
    /\ UNCHANGED <<questions, files, tasks>>
    /\ TaskFrame
    /\ UNCHANGED groupIds

\* The writes the backend may answer with an error: those to the container
\* of the first question.
backendRejects(q, session) == q = 1

\* ingest: the backend answers the write of the next remaining session with
\* an error.  Hindsight and Graphiti log a warning and return normally, with
\* no document for the session; the runner records the session as completed.
IngestSessionRejected(i) ==
    /\ InFlight(i)
    /\ phaseName = "ingest"
    /\ provider \in {"hindsight", "graphiti"}
    /\ LET q == tasks[i].context.item
           remaining == RemainingSessions(questions, q)
       IN  /\ Len(remaining) > 0
           /\ backendRejects(q, Head(remaining))
           /\ LET session == Head(remaining)
                  completedSessions ==
                      Append(questions[q].phases.ingest.completedSessions, session)
              IN  /\ tasks' = [tasks EXCEPT
                                   ![i].combinedResult =
                                       [documentIds |-> @.documentIds
                                                           \o ingestReturn(q, session, FALSE).documentIds,
                                        taskIds |-> @.taskIds
                                                           \o ingestReturn(q, session, FALSE).taskIds],
                                   ![i].calls = Append(@, session)]
                  /\ questions' = updatePhase(questions, q, "ingest",
                                      [completedSessions |-> completedSessions])
                  /\ groupIds' = registered(groupIds, q)
    /\ UNCHANGED files
    /\ UNCHANGED backend
    /\ TaskFrame

\* ingest: provider.ingest throws for the next remaining session.
IngestSessionFails(i) ==
    /\ InFlight(i)
    /\ phaseName = "ingest"
    /\ LET q == tasks[i].context.item
       IN  /\ Len(RemainingSessions(questions, q)) > 0
           /\ questions' = RecordFailed(questions, "ingest", q)
           /\ tasks' = [TaskFails(i) EXCEPT
                            ![i].calls = Append(@, Head(RemainingSessions(questions, q)))]
    /\ UNCHANGED files
    /\ TaskFrame
    /\ UNCHANGED groupIds
    /\ UNCHANGED backend

\* An ingest result: taskIds is left out when there are none.
IngestResult(documentIds, taskIds) ==
    IF Len(taskIds) = 0 THEN [documentIds |-> documentIds]
    ELSE [documentIds |-> documentIds, taskIds |-> taskIds]

\* existingResult.taskIds || []
TaskIdsOf(result) == IF Has(result, "taskIds") THEN result.taskIds ELSE <<>>

\* Mutant: the accumulated result replaces the stored one.
MergedIngestResult_Overwrites(qs, q, combinedResult) ==
    IngestResult(combinedResult.documentIds, combinedResult.taskIds)

\* The result the ingest task stores: the prior stored result, if any,
\* followed by what this attempt accumulated.
MergedIngestResult(qs, q, combinedResult) ==
    IF Has(qs[q].phases.ingest, "ingestResult")
    THEN LET existingResult == qs[q].phases.ingest.ingestResult
         IN  IngestResult(existingResult.documentIds \o combinedResult.documentIds,
                          TaskIdsOf(existingResult) \o combinedResult.taskIds)
    ELSE IngestResult(combinedResult.documentIds, combinedResult.taskIds)

\* ingest: the session loop is over; the result is merged and stored.  (A
\* step of its own, so that the process may die between the last session's
\* record and the completion record.)
IngestComplete(i) ==
    /\ InFlight(i)
    /\ phaseName = "ingest"
    /\ LET q == tasks[i].context.item
       IN  /\ Len(RemainingSessions(questions, q)) = 0
           /\ questions' = updatePhase(questions, q, "ingest",
                  [status |-> "completed",
                   ingestResult |-> MergedIngestResult(questions, q, tasks[i].combinedResult),
                   completedAt |-> Now])
           /\ tasks' = TaskSucceeds(i)
    /\ UNCHANGED files
    /\ TaskFrame
    /\ UNCHANGED groupIds
    /\ UNCHANGED backend

\* Whether provider.awaitIndexing can return for question q: Graphiti's
\* returns once the group's episode count is positive and stable, Hindsight's
\* at once.
awaitIndexingReturns(q) == provider = "graphiti" => backend[q] # {}

\* indexing: provider.awaitIndexing returns.
IndexingDone(i) ==
    /\ InFlight(i)
    /\ phaseName = "indexing"
    /\ awaitIndexingReturns(tasks[i].context.item)
    /\ questions' = updatePhase(questions, tasks[i].context.item, "indexing",
                        [status |-> "completed", completedAt |-> Now])
    /\ tasks' = TaskSucceeds(i)
    /\ UNCHANGED files
    /\ TaskFrame
    /\ UNCHANGED groupIds
    /\ UNCHANGED backend

\* this.bankIds.get(options.containerTag) / this.groupIds.get(...): search
\* throws "No bank found" / "No group found" when the map has no entry.
groupFound(q) ==
    provider \in {"hindsight", "graphiti"} => containerTag(q) \in groupIds

\* join(resultsDir, `${question.questionId}.json`)
ResultFile(q) == q

\* Mutant: the artifact is not written.
writeFileSync_Skipped(fs, resultFile) == fs

\* writeFileSync(resultFile, JSON.stringify(resultData, null, 2))
writeFileSync(fs, resultFile) == fs \cup {resultFile}

\* Whether search task t has written its artifact (recorded in its calls).
SearchWritten(t) == t.calls # <<>>

\* search: provider.search has returned and writeFileSync has written the
\* artifact; the checkpoint is not yet updated.  (The point at which the
\* process may die between the write and the record; a step of the
\* specifications that look at it.)
SearchWrite(i) ==
    /\ InFlight(i)
    /\ phaseName = "search"
    /\ groupFound(tasks[i].context.item)
    /\ ~SearchWritten(tasks[i])
    /\ files' = writeFileSync(files, ResultFile(tasks[i].context.item))
    /\ tasks' = [tasks EXCEPT ![i].calls = <<ResultFile(tasks[i].context.item)>>]
    /\ UNCHANGED questions
    /\ TaskFrame
    /\ UNCHANGED groupIds
    /\ UNCHANGED backend

\* search: provider.search returns; the artifact is written (unless the
\* task is already past the write), then the checkpoint records its path and
\* the results.
SearchDone(i) ==
    /\ InFlight(i)
    /\ phaseName = "search"
    /\ SearchWritten(tasks[i]) \/ groupFound(tasks[i].context.item)
    /\ LET q == tasks[i].context.item
       IN  /\ files' = writeFileSync(files, ResultFile(q))
           /\ questions' = updatePhase(questions, q, "search",
                  [status |-> "completed", resultFile |-> ResultFile(q),
                   results |-> providerSearch(q), completedAt |-> Now])
    /\ tasks' = TaskSucceeds(i)
    /\ TaskFrame
    /\ UNCHANGED groupIds
    /\ UNCHANGED backend

\* answer: generateText returns a text, stored trimmed as the hypothesis.
AnswerDone(i) ==
    /\ InFlight(i)
    /\ phaseName = "answer"
    /\ \E hypothesis \in {"", "hypothesis"} :
          questions' = updatePhase(questions, tasks[i].context.item, "answer",
                           [status |-> "completed", hypothesis |-> hypothesis,
                            completedAt |-> Now])
    /\ tasks' = TaskSucceeds(i)
    /\ UNCHANGED files
    /\ TaskFrame
    /\ UNCHANGED groupIds
    /\ UNCHANGED backend

\* evaluate: judge.evaluate returns its verdict.
JudgeReturns(i) ==
    /\ InFlight(i)
    /\ phaseName = "evaluate"
    /\ tasks[i].judge = "running"
    /\ tasks' = [tasks EXCEPT ![i].judge = "ok"]
    /\ UNCHANGED <<questions, files>>
    /\ TaskFrame
    /\ UNCHANGED groupIds
    /\ UNCHANGED backend

\* evaluate: calculateRetrievalMetrics returns.
MetricsReturn(i) ==
    /\ InFlight(i)
    /\ phaseName = "evaluate"
    /\ tasks[i].metrics = "running"
    /\ tasks' = [tasks EXCEPT ![i].metrics = "ok"]
    /\ UNCHANGED <<questions, files>>
    /\ TaskFrame
    /\ UNCHANGED groupIds
    /\ UNCHANGED backend

\* checkpoint.questions[q].phases.search.results || []
searchResults(qs, q) ==
    IF Has(qs[q].phases.search, "results") THEN qs[q].phases.search.results ELSE <<>>

\* Mutant: the evaluate task goes on as soon as the judge has returned.
BothReturned_JudgeOnly(t) == t.judge = "ok"

\* Promise.all([judge.evaluate(...), calculateRetrievalMetrics(...)]) resolves.
BothReturned(t) == t.judge = "ok" /\ t.metrics = "ok"

\* evaluate: the judge and the retrieval metrics have both returned; the
\* verdict and the metrics are stored in one update.
EvaluateDone(i) ==
    /\ InFlight(i)
    /\ phaseName = "evaluate"
    /\ BothReturned(tasks[i])
    /\ questions' = updatePhase(questions, tasks[i].context.item, "evaluate",
                        [status |-> "completed", score |-> "score", label |-> "label",
                         explanation |-> "explanation",
                         retrievalMetrics |->
                             calculateRetrievalMetrics(tasks[i].context.item,
                                 searchResults(questions, tasks[i].context.item)),
                         completedAt |-> Now])
    /\ tasks' = TaskSucceeds(i)
    /\ UNCHANGED files
    /\ TaskFrame
    /\ UNCHANGED groupIds
    /\ UNCHANGED backend

\* indexing: provider.awaitIndexing throws.
IndexingFails(i) ==
    /\ InFlight(i)
    /\ phaseName = "indexing"
    /\ questions' = RecordFailed(questions, "indexing", tasks[i].context.item)
    /\ tasks' = TaskFails(i)
    /\ UNCHANGED files
    /\ TaskFrame
    /\ UNCHANGED groupIds
    /\ UNCHANGED backend

\* search: provider.search (or the write of the artifact) throws.
SearchFails(i) ==
    /\ InFlight(i)
    /\ phaseName = "search"
    /\ ~SearchWritten(tasks[i])
    /\ questions' = RecordFailed(questions, "search", tasks[i].context.item)
    /\ tasks' = TaskFails(i)
    /\ UNCHANGED files
    /\ TaskFrame
    /\ UNCHANGED groupIds
    /\ UNCHANGED backend

\* answer: reading the artifact or generateText throws.
AnswerFails(i) ==
    /\ InFlight(i)
    /\ phaseName = "answer"
    /\ questions' = RecordFailed(questions, "answer", tasks[i].context.item)
    /\ tasks' = TaskFails(i)
    /\ UNCHANGED files
    /\ TaskFrame
    /\ UNCHANGED groupIds
    /\ UNCHANGED backend

\* evaluate: the judge or the retrieval metrics throw while Promise.all is
\* awaited; the catch block records the failure whatever the other call does.
EvaluateFails(i) ==
    /\ InFlight(i)
    /\ phaseName = "evaluate"
    /\ \E call \in {"judge", "metrics"} :
          /\ tasks[i][call] = "running"
          /\ tasks' = [TaskFails(i) EXCEPT ![i][call] = "err"]
    /\ questions' = RecordFailed(questions, "evaluate", tasks[i].context.item)
    /\ UNCHANGED files
    /\ TaskFrame
    /\ UNCHANGED groupIds
    /\ UNCHANGED backend

\* ------------------------------------------------------ batch settling

\* Mutant: the error thrown is the one of the task that failed first in time.
firstError_FirstRejected(results) ==
    LET failed == SelectSeq(results, LAMBDA r : r.st = "err")
    IN  IF Len(failed) = 0 THEN NoValue
        ELSE LET k == CHOOSE a \in 1..Len(failed) :
                          \A b \in 1..Len(failed) : failed[a].settledAs <= failed[b].settledAs
             IN  failed[k].error

\* Mutant: the failures of a batch are swallowed and the loop goes on.
firstError_Swallowed(results) == NoValue

\* batchResults.find((r) => !r.success): the first failure in input order.
firstError(results) ==
    LET failed == SelectSeq(results, LAMBDA r : r.st = "err")
    IN  IF Len(failed) = 0 THEN NoValue ELSE Head(failed).error

\* batchResults.filter((r) => r.success).map((r) => r.result)
successfulResults(results) ==
    LET ok == SelectSeq(results, LAMBDA r : r.st = "ok")
    IN  [k \in 1..Len(ok) |-> ok[k].result]

\* Mutant: a batch's results are put in front of the earlier ones.
PushResults_Unshift(all, results) == results \o all

\* allResults.push(...successfulResults)
PushResults(all, results) == all \o results

\* Mutant: the batch is abandoned as soon as one promise has rejected.
AllSettled_FailFast(results) ==
    \/ \E k \in 1..Len(results) : results[k].st = "err"
    \/ \A k \in 1..Len(results) : Settled(results[k])

\* Mutant: a raised stop signal ends the wait for the batch.
AllSettled_UnlessStopped(results) ==
    stop \/ \A k \in 1..Len(results) : Settled(results[k])

\* Promise.all(batchPromises) has every promise of the batch.
AllSettled(results) == \A k \in 1..Len(results) : Settled(results[k])

\* Mutant: onBatchComplete is called before the failures are looked at.
ObserveBatch_BeforeThrow(calls, results) ==
    Append(calls, <<"onBatchComplete", batchIdx, Len(successfulResults(results))>>)

\* onBatchComplete?.(batchIdx, successfulResults), reached only when the
\* batch has no failure.
ObserveBatch(calls, results) ==
    IF firstError(results) # NoValue THEN calls
    ELSE Append(calls, <<"onBatchComplete", batchIdx, Len(successfulResults(results))>>)

\* await Promise.all(batchPromises) resumes: the first failure is thrown, or
\* the results are collected and the loop goes on, waits, or returns.
Settle ==
    /\ pc = "await"
    /\ AllSettled(batchResults)
    /\ batchCalls' = ObserveBatch(batchCalls, batchResults)
    /\ IF firstError(batchResults) # NoValue
       THEN /\ pc' = "thrown"
            /\ thrown' = [kind |-> "task",
                          questionId |-> firstError(batchResults).questionId]
            /\ active' = FALSE
            /\ UNCHANGED <<allResults, batchIdx, phaseIdx>>
       ELSE /\ allResults' = PushResults(allResults, successfulResults(batchResults))
            /\ UNCHANGED <<thrown, active>>
            /\ IF batchIdx < totalBatches - 1 /\ rateLimitMs > 0
               THEN /\ pc' = "delay"
                    /\ UNCHANGED <<batchIdx, phaseIdx>>
               ELSE IF batchIdx + 1 < totalBatches
               THEN /\ pc' = "check"
                    /\ batchIdx' = batchIdx + 1
                    /\ UNCHANGED phaseIdx
               ELSE /\ pc' = "returned"
                    /\ phaseIdx' = phaseIdx + 1
                    /\ UNCHANGED batchIdx
    /\ UNCHANGED <<questions, files, stop, phaseName, items, concurrency,
                   rateLimitMs, batchOffset, tasks>>
    /\ UNCHANGED envVars
    /\ UNCHANGED groupIds
    /\ UNCHANGED backend

\* The inter-batch delay has elapsed: the loop's next iteration.
Delay ==
    /\ pc = "delay"
    /\ pc' = "check"
    /\ batchIdx' = batchIdx + 1
    /\ UNCHANGED <<questions, files, active, stop, phaseIdx, phaseName, items,
                   concurrency, rateLimitMs, batchOffset, tasks, allResults, thrown>>
    /\ UNCHANGED envVars
    /\ UNCHANGED groupIds
    /\ UNCHANGED backend
    /\ UNCHANGED batchCalls

\* -------------------------------------------------------- environment

\* The user asks the run to stop.
RaiseStop ==
    /\ active
    /\ ~stop
    /\ stop' = TRUE
    /\ UNCHANGED <<questions, files, active, phaseIdx, pc, phaseName, items,
                   concurrency, rateLimitMs, batchIdx, batchOffset, tasks,
                   allResults, thrown>>
    /\ UNCHANGED envVars
    /\ UNCHANGED groupIds
    /\ UNCHANGED backend
    /\ UNCHANGED batchCalls

\* A search result artifact disappears from the disk.
ArtifactLost ==
    /\ \E resultFile \in files : files' = files \ {resultFile}
    /\ UNCHANGED <<questions, active, stop, phaseIdx, pc, phaseName, items,
                   concurrency, rateLimitMs, batchIdx, batchOffset, tasks,
                   allResults, thrown>>
    /\ UNCHANGED envVars
    /\ UNCHANGED groupIds
    /\ UNCHANGED backend
    /\ UNCHANGED batchCalls

\* The process dies: everything but the persisted checkpoint, the artifacts
\* and the backend is lost, the provider instance and its map included.
Crash ==
    /\ active
    /\ active' = FALSE
    /\ stop' = FALSE
    /\ phaseIdx' = 1
    /\ ExecReset
    /\ UNCHANGED <<questions, files>>
    /\ UNCHANGED envVars
    /\ groupIds' = {}
    /\ UNCHANGED backend

Next ==
    \/ StartRun
    \/ BeginPhase
    \/ FinishRun
    \/ CheckStop
    \/ Dispatch
    \/ \E i \in 1..NumQuestions :
          \/ IngestSession(i)
          \/ IngestSessionFails(i)
          \/ IngestComplete(i)
          \/ IndexingDone(i)
          \/ IndexingFails(i)
          \/ SearchDone(i)
          \/ SearchFails(i)
          \/ AnswerDone(i)
          \/ AnswerFails(i)
          \/ JudgeReturns(i)
          \/ MetricsReturn(i)
          \/ EvaluateDone(i)
          \/ EvaluateFails(i)
    \/ Settle
    \/ Delay
    \/ RaiseStop
    \/ Crash

Spec == Init /\ [][Next]_vars

\* The runs in which the process never dies: a run ends by returning or by
\* the executor throwing.
NextNoCrash ==
    \/ StartRun
    \/ BeginPhase
    \/ FinishRun
    \/ CheckStop
    \/ Dispatch
    \/ \E i \in 1..NumQuestions :
          \/ IngestSession(i)
          \/ IngestSessionFails(i)
          \/ IngestComplete(i)
          \/ IndexingDone(i)
          \/ IndexingFails(i)
          \/ SearchDone(i)
          \/ SearchFails(i)
          \/ AnswerDone(i)
          \/ AnswerFails(i)
          \/ JudgeReturns(i)
          \/ MetricsReturn(i)
          \/ EvaluateDone(i)
          \/ EvaluateFails(i)
    \/ Settle
    \/ Delay
    \/ RaiseStop

SpecNoCrash == Init /\ [][NextNoCrash]_vars

\* --------------------------------------- the checkpoint with error texts

InitErrors ==
    /\ NewRun
    /\ resolvePhase = "ingest"
    /\ callerConfig = NoConfig
    /\ providerConfig = NoConfig
    /\ resolved = NotResolved
    /\ provider = "generic"
    /\ groupIds = {}
    /\ poll = NotPolling
    /\ keepErrorText = TRUE
    /\ questionIds = QuestionIds

\* The runs without a crash, the checkpoint keeping the text of each phase's
\* last error.
SpecErrors == InitErrors /\ [][NextNoCrash]_vars

\* ------------------------------------------------- the resolver alone

\* The keys and values of the configurations given to the resolver: the
\* default, two phases, and counts that include 0 and a negative one.
ResolverKeys == {"default", "ingest", "search"}

ConfigValues == -1..MaxConcurrency

ResolverConfigs ==
    {NoConfig} \cup UNION {[D -> ConfigValues] : D \in SUBSET ResolverKeys}

InitResolver ==
    /\ NewRun
    /\ resolvePhase \in PhaseIds
    /\ callerConfig \in ResolverConfigs
    /\ providerConfig \in ResolverConfigs
    /\ resolved = NotResolved
    /\ provider = "generic"
    /\ groupIds = {}
    /\ poll = NotPolling
    /\ keepErrorText = FALSE
    /\ questionIds = QuestionIds

\* resolveParallelism(phase, cliConfig, providerDefault) is called.
Resolve ==
    /\ ~resolved.called
    /\ resolved' = [called |-> TRUE,
                    value |-> resolveParallelism(resolvePhase, callerConfig, providerConfig)]
    /\ UNCHANGED <<questions, files, active, stop, phaseIdx, pc, phaseName, items,
                   concurrency, rateLimitMs, batchIdx, batchOffset, tasks,
                   allResults, thrown, resolvePhase, callerConfig, providerConfig,
                   keepErrorText, questionIds, backend, batchCalls, provider,
                   groupIds, poll>>

SpecResolver == InitResolver /\ [][Resolve]_vars

\* ------------------------------------------------- the executor alone

\* The lists of items a caller passes: question identifiers, none twice,
\* the empty list included.
ItemLists ==
    {its \in UNION {[1..n -> QuestionIds] : n \in 0..NumQuestions} :
        \A a, b \in 1..Len(its) : its[a] = its[b] => a = b}

\* ParallelExecutor.executeBatched is called directly, with the search task
\* as executeTask: any list of items, any concurrency, a delay or none, the
\* stop signal set or not.  It runs up to the batch loop.
executeBatched ==
    /\ pc \in {"idle", "returned", "thrown"}
    /\ \E its \in ItemLists, c \in ConfigValues, delay \in {0, RATE_LIMIT_MS} :
          /\ phaseName' = "search"
          /\ items' = its
          /\ concurrency' = c
          /\ rateLimitMs' = delay
          /\ IF Len(its) = 0
             THEN /\ pc' = "returned"
                  /\ thrown' = NoError
                  /\ active' = FALSE
             ELSE IF c <= 0
             THEN /\ pc' = "thrown"
                  /\ thrown' = [kind |-> "config", questionId |-> 0]
                  /\ active' = FALSE
             ELSE /\ pc' = "check"
                  /\ thrown' = NoError
                  /\ active' = TRUE
    /\ stop' \in BOOLEAN
    /\ phaseIdx' = 1
    /\ batchIdx' = 0
    /\ batchOffset' = 0
    /\ tasks' = <<>>
    /\ allResults' = <<>>
    /\ batchCalls' = <<>>
    /\ UNCHANGED <<questions, files>>
    /\ UNCHANGED envVars
    /\ UNCHANGED groupIds
    /\ UNCHANGED backend

NextExecutor ==
    \/ executeBatched
    \/ CheckStop
    \/ Dispatch
    \/ \E i \in 1..NumQuestions :
          \/ SearchDone(i)
          \/ SearchFails(i)
    \/ Settle
    \/ Delay
    \/ RaiseStop

SpecExecutor == Init /\ [][NextExecutor]_vars

\* ------------------------------ the ingest runner on a stored checkpoint

\* The identifiers provider.ingest returned for the first k sessions of q.
RECURSIVE StoredDocumentIds(_, _)
StoredDocumentIds(q, k) ==
    IF k = 0 THEN <<>>
    ELSE StoredDocumentIds(q, k - 1) \o providerDocumentIds(q, getHaystackSessions(q)[k])

RECURSIVE StoredTaskIds(_, _)
StoredTaskIds(q, k) ==
    IF k = 0 THEN <<>>
    ELSE StoredTaskIds(q, k - 1) \o providerTaskIds(q, getHaystackSessions(q)[k])

\* The entry of q in a checkpoint an earlier invocation has persisted: its
\* first k sessions are recorded completed, their result is stored, and the
\* ingest phase is not completed.
StoredAttempt(q, k) ==
    [InitialQuestion EXCEPT
        !.sessions = sessionsMetadata(q),
        !.phases.ingest =
            [status |-> "failed",
             completedSessions |-> SubSeq(getHaystackSessions(q), 1, k),
             ingestResult |-> IngestResult(StoredDocumentIds(q, k), StoredTaskIds(q, k))]]

\* The run starts from a checkpoint in which the questions are new, but for
\* one at most that holds a stored attempt; the backend holds the sessions
\* recorded completed.
InitIngest ==
    /\ active = FALSE
    /\ stop = FALSE
    /\ phaseIdx = 1
    /\ pc = "idle"
    /\ phaseName = "none"
    /\ items = <<>>
    /\ concurrency = 1
    /\ rateLimitMs = 0
    /\ batchIdx = 0
    /\ batchOffset = 0
    /\ tasks = <<>>
    /\ allResults = <<>>
    /\ thrown = NoError
    /\ files = {}
    /\ batchCalls = <<>>
    /\ questions \in [QuestionIds ->
                        {InitialQuestion} \cup
                        UNION {{StoredAttempt(q, k) : k \in 0..NumSessions} : q \in QuestionIds}]
    /\ \A q \in QuestionIds :
          questions[q] = InitialQuestion \/
              \E k \in 0..NumSessions : questions[q] = StoredAttempt(q, k)
    /\ \A a, b \in QuestionIds :
          (questions[a] # InitialQuestion /\ questions[b] # InitialQuestion) => a = b
    /\ backend = [q \in QuestionIds |->
                     {questions[q].phases.ingest.completedSessions[k] :
                          k \in 1..Len(questions[q].phases.ingest.completedSessions)}]
    /\ resolvePhase = "ingest"
    /\ callerConfig = NoConfig
    /\ providerConfig = NoConfig
    /\ resolved = NotResolved
    /\ provider = "generic"
    /\ groupIds = {}
    /\ poll = NotPolling
    /\ keepErrorText = FALSE
    /\ questionIds = QuestionIds

\* The orchestrator calls runIngestPhase.
runIngestPhase == phaseIdx = 1 /\ BeginPhase

\* The ingest phase alone, the provider's backend storing a session some
\* time before provider.ingest returns; no stop is asked, and the process
\* may die at any point.
NextIngest ==
    \/ StartRun
    \/ runIngestPhase
    \/ CheckStop
    \/ Dispatch
    \/ \E i \in 1..NumQuestions :
          \/ IngestAccepted(i)
          \/ IngestSession(i)
          \/ IngestSessionFails(i)
          \/ IngestComplete(i)
    \/ Settle
    \/ Delay
    \/ Crash

SpecIngest == InitIngest /\ [][NextIngest]_vars

\* --------------------------------- a subset of questions, lost artifacts

\* The caller gives the runners a non-empty subset of the questions.
InitTargets ==
    /\ NewRun
    /\ resolvePhase = "ingest"
    /\ callerConfig = NoConfig
    /\ providerConfig = NoConfig
    /\ resolved = NotResolved
    /\ provider = "generic"
    /\ groupIds = {}
    /\ poll = NotPolling
    /\ keepErrorText = FALSE
    /\ questionIds \in SUBSET QuestionIds \ {{}}

\* The runs without a stop and without a crash, on a disk from which
\* artifacts may disappear.
NextTargets ==
    \/ StartRun
    \/ BeginPhase
    \/ FinishRun
    \/ CheckStop
    \/ Dispatch
    \/ \E i \in 1..NumQuestions :
          \/ IngestSession(i)
          \/ IngestSessionFails(i)
          \/ IngestComplete(i)
          \/ IndexingDone(i)
          \/ IndexingFails(i)
          \/ SearchDone(i)
          \/ SearchFails(i)
          \/ AnswerDone(i)
          \/ AnswerFails(i)
          \/ JudgeReturns(i)
          \/ MetricsReturn(i)
          \/ EvaluateDone(i)
          \/ EvaluateFails(i)
    \/ Settle
    \/ Delay
    \/ ArtifactLost

SpecTargets == InitTargets /\ [][NextTargets]_vars

\* Runs in which the process may die between the write of a search artifact
\* and its record in the checkpoint (and at any other point); the stop
\* signal is not raised.
NextSearch ==
    \/ StartRun
    \/ BeginPhase
    \/ FinishRun
    \/ CheckStop
    \/ Dispatch
    \/ \E i \in 1..NumQuestions :
          \/ IngestSession(i)
          \/ IngestSessionFails(i)
          \/ IngestComplete(i)
          \/ IndexingDone(i)
          \/ IndexingFails(i)
          \/ SearchWrite(i)
          \/ SearchDone(i)
          \/ SearchFails(i)
          \/ AnswerDone(i)
          \/ AnswerFails(i)
          \/ JudgeReturns(i)
          \/ MetricsReturn(i)
          \/ EvaluateDone(i)
          \/ EvaluateFails(i)
    \/ Settle
    \/ Delay
    \/ Crash

SpecSearch == Init /\ [][NextSearch]_vars

\* Runs with the Hindsight or the Graphiti provider: the backend may reject
\* the write of a session, and the process may die and be resumed with a
\* fresh provider instance.  The caller gives no concurrency configuration, or
\* a general default.
ProviderNames == {"hindsight", "graphiti"}

InitProviders ==
    /\ NewRun
    /\ resolvePhase = "ingest"
    /\ callerConfig = NoConfig
    /\ providerConfig = NoConfig
    /\ resolved = NotResolved
    /\ provider \in ProviderNames
    /\ groupIds = {}
    /\ poll = NotPolling
    /\ keepErrorText = FALSE
    /\ questionIds = QuestionIds

NextProviders ==
    \/ StartRun
    \/ BeginPhase
    \/ FinishRun
    \/ CheckStop
    \/ Dispatch
    \/ \E i \in 1..NumQuestions :
          \/ IngestSession(i)
          \/ IngestSessionRejected(i)
          \/ IngestComplete(i)
          \/ IndexingDone(i)
          \/ IndexingFails(i)
          \/ SearchDone(i)
          \/ SearchFails(i)
          \/ AnswerDone(i)
          \/ JudgeReturns(i)
          \/ MetricsReturn(i)
          \/ EvaluateDone(i)
    \/ Settle
    \/ Delay
    \/ Crash

SpecProviders == InitProviders /\ [][NextProviders]_vars

\* ------------------------------------- GraphitiProvider.awaitIndexing

\* What a task's calls of provider.ingest for the first n sessions of
\* question q add up to, the backend accepting the sessions of the set
\* accepted and rejecting the others.
RECURSIVE IngestOf(_, _, _)
IngestOf(q, n, accepted) ==
    IF n = 0 THEN [documentIds |-> <<>>, taskIds |-> <<>>]
    ELSE LET before == IngestOf(q, n - 1, accepted)
             this == ingestReturn(q, n, n \in accepted)
         IN  [documentIds |-> before.documentIds \o this.documentIds,
              taskIds |-> before.taskIds \o this.taskIds]

\* The ingest results awaitIndexing may be given.
PollResults ==
    {IngestResult(IngestOf(1, n, accepted).documentIds,
                  IngestOf(1, n, accepted).taskIds) :
        n \in 0..NumSessions, accepted \in SUBSET (1..NumSessions)}

\* The polls kept for the record: the counts of the last four answered.
SeenKept == 4

\* The counts of the last SeenKept answered polls, after one more.
Seen(seen, currentCount) ==
    LET all == Append(seen, currentCount)
    IN  IF Len(all) > SeenKept THEN Tail(all) ELSE all

\* backoffMs = Math.min(backoffMs * 1.2, 10000), in whole milliseconds.
NextBackoff(backoffMs) == Min((backoffMs * 12) \div 10, 10000)

\* currentCount === lastEpisodeCount && currentCount > 0
Stable(currentCount, lastEpisodeCount) ==
    currentCount = lastEpisodeCount /\ currentCount > 0

PollFrame ==
    UNCHANGED <<questions, files, active, stop, phaseIdx, pc, phaseName, items,
                concurrency, rateLimitMs, batchIdx, batchOffset, tasks,
                allResults, thrown, resolvePhase, callerConfig, providerConfig,
                resolved, keepErrorText, questionIds, backend, batchCalls,
                provider, groupIds>>

\* The call: without a group (result.taskIds?.[0]) it returns at once,
\* otherwise the locals are set and the loop is entered.
awaitIndexing ==
    /\ poll.pc = "idle"
    /\ poll' = IF Len(TaskIdsOf(poll.result)) = 0
               THEN [poll EXCEPT !.pc = "returned"]
               ELSE [poll EXCEPT !.pc = "sleep", !.stableCount = 0,
                                 !.lastEpisodeCount = -1, !.backoffMs = 2000]
    /\ PollFrame

\* await new Promise((r) => setTimeout(r, backoffMs)) is over.
TimerFires ==
    /\ poll.pc = "sleep"
    /\ poll' = [poll EXCEPT !.pc = "fetch"]
    /\ PollFrame

\* The backend answers the poll with the group's episodes.
PollAnswers ==
    /\ poll.pc = "fetch"
    /\ LET currentCount == poll.episodes
           stable == Stable(currentCount, poll.lastEpisodeCount)
           stableCount == IF stable THEN poll.stableCount + 1 ELSE 0
       IN  poll' = [poll EXCEPT
                       !.stableCount = stableCount,
                       !.lastEpisodeCount = IF stable THEN @ ELSE currentCount,
                       !.backoffMs = NextBackoff(@),
                       !.seen = Seen(@, currentCount),
                       !.pc = IF stableCount < 3 THEN "sleep" ELSE "returned"]
    /\ PollFrame

\* The backend answers the poll with an error status: continue, which
\* skips the backoff update.
PollNotOk ==
    /\ poll.pc = "fetch"
    /\ poll' = [poll EXCEPT !.pc = "sleep"]
    /\ PollFrame

\* fetch throws: the catch block, then the backoff update.
PollThrows ==
    /\ poll.pc = "fetch"
    /\ poll' = [poll EXCEPT !.pc = "sleep", !.backoffMs = NextBackoff(@)]
    /\ PollFrame

\* The backend turns one more accepted session into an episode.
EpisodeStored ==
    /\ poll.episodes < Len(poll.result.documentIds)
    /\ poll' = [poll EXCEPT !.episodes = @ + 1]
    /\ PollFrame

InitAwaitIndexing ==
    /\ NewRun
    /\ resolvePhase = "ingest"
    /\ callerConfig = NoConfig
    /\ providerConfig = NoConfig
    /\ resolved = NotResolved
    /\ provider = "graphiti"
    /\ groupIds = {}
    /\ keepErrorText = FALSE
    /\ questionIds = QuestionIds
    /\ poll \in {[NotPolling EXCEPT !.result = r] : r \in PollResults}

NextAwaitIndexing ==
    \/ awaitIndexing
    \/ TimerFires
    \/ PollAnswers
    \/ PollNotOk
    \/ PollThrows
    \/ EpisodeStored

\* The backend eventually answers a poll that keeps being made, and
\* eventually has made an episode of every session it accepted.
SpecAwaitIndexing ==
    /\ InitAwaitIndexing
    /\ [][NextAwaitIndexing]_vars
    /\ WF_vars(awaitIndexing)
    /\ WF_vars(TimerFires)
    /\ SF_vars(PollAnswers)
    /\ WF_vars(EpisodeStored)

\* ----------------------------------- re-invocation with no failure

\* The runner resolves a valid concurrency.
BeginPhaseValid == BeginPhase /\ pc' # "thrown"

\* The run is invoked again and again; every collaborator call returns, no
\* stop is asked and the process never dies.
NextLive ==
    \/ StartRun
    \/ BeginPhaseValid
    \/ FinishRun
    \/ CheckStop
    \/ Dispatch
    \/ \E i \in 1..NumQuestions :
          \/ IngestSession(i)
          \/ IngestComplete(i)
          \/ IndexingDone(i)
          \/ SearchDone(i)
          \/ AnswerDone(i)
          \/ JudgeReturns(i)
          \/ MetricsReturn(i)
          \/ EvaluateDone(i)
    \/ Settle
    \/ Delay

\* Every step that can be taken is eventually taken: a call in flight
\* returns, and a run that has ended is invoked again.
SpecLive == Init /\ [][NextLive]_vars /\ WF_vars(NextLive)

\* ================================================================ claims

Status(q, phase) == questions[q].phases[phase].status

TaskIds == 1..Len(tasks)

\* The batch a created task belongs to.
BatchOf(t) == t.context.index \div concurrency

\* C1: at most `concurrency` tasks are started and not settled, and a task of
\* a later batch exists only when every task of the earlier batches has settled.
C1_BoundedBatches ==
    /\ Cardinality({i \in TaskIds : tasks[i].st = "running"}) <= concurrency
    /\ \A i, j \in TaskIds :
          BatchOf(tasks[i]) < BatchOf(tasks[j]) => Settled(tasks[i])

\* The second batch is running after the first one has settled.
C1_Witness ==
    /\ pc = "await"
    /\ concurrency = 1
    /\ Len(tasks) = 2
    /\ Settled(tasks[1])
    /\ tasks[2].st = "running"

\* C2: a failed task leaves the executor no way on but the throw; when it has
\* thrown a task's error, every task of the failing batch was created and has
\* settled, and no task of a later batch was created.
C2_FailFast ==
    /\ (\E i \in TaskIds : tasks[i].st = "err") =>
          /\ pc \in {"await", "thrown"}
          /\ pc = "thrown" => thrown.kind = "task"
    /\ (pc = "thrown" /\ thrown.kind = "task") =>
          /\ \E i \in TaskIds :
                tasks[i].st = "err" /\ BatchOf(tasks[i]) = batchIdx
          /\ \A i \in TaskIds : Settled(tasks[i])
          /\ Len(tasks) = batchEnd
          /\ \A i \in TaskIds : BatchOf(tasks[i]) <= batchIdx

\* The executor has thrown a task's error, and a sibling of the failing task
\* settled successfully after the failure.
C2_Witness ==
    /\ pc = "thrown"
    /\ thrown.kind = "task"
    /\ \E i, j \in TaskIds :
          /\ BatchOf(tasks[i]) = BatchOf(tasks[j])
          /\ tasks[i].st = "err"
          /\ tasks[j].st = "ok"
          /\ tasks[j].settledAs > tasks[i].settledAs

\* C3: a stop signal that is set at the batch-boundary check makes the
\* executor throw the stop error without creating a task or touching the
\* checkpoint; when it has thrown the stop error, exactly the tasks of the
\* batches before that check exist, all of them settled, and the checkpoint
\* records each of them completed.
C3_StopAtBoundary ==
    /\ [](pc = "thrown" /\ thrown.kind = "stop" =>
            /\ Len(tasks) = batchStart
            /\ \A i \in TaskIds :
                  /\ tasks[i].st = "ok"
                  /\ Status(tasks[i].context.item, phaseName) = "completed")
    /\ [][(pc = "check" /\ stop /\ pc' # "idle") =>
            /\ pc' = "thrown"
            /\ thrown'.kind = "stop"
            /\ tasks' = tasks
            /\ questions' = questions]_vars

\* The stop error was thrown at the check between the first and the second
\* batch.
C3_Witness ==
    /\ pc = "thrown"
    /\ thrown.kind = "stop"
    /\ Len(tasks) >= 1
    /\ Len(tasks) < Len(items)

CompletedSessions(q) == questions[q].phases.ingest.completedSessions

IsPrefix(a, b) == Len(a) <= Len(b) /\ SubSeq(b, 1, Len(a)) = a

\* C4: when the executor has thrown the error of question Q in phase P, Q's
\* phase P is recorded failed and belongs to P's working set on resume; no
\* step changes a completed entry (status or payload), and a task is only
\* ever created for an entry that is not completed.
C4_ResumeKeepsCompleted ==
    /\ [](pc = "thrown" /\ thrown.kind = "task" =>
            /\ Status(thrown.questionId, phaseName) = "failed"
            /\ Included(questions, files, phaseName, thrown.questionId))
    /\ [][\A q \in QuestionIds, p \in PhaseIds :
            Status(q, p) = "completed" =>
                questions'[q].phases[p] = questions[q].phases[p]]_vars
    /\ [][Len(tasks') > Len(tasks) =>
            Status(tasks'[Len(tasks')].context.item, phaseName) # "completed"]_vars

\* A resumed run is about to create the task of an entry that failed before,
\* while the same phase of another question is completed and outside the
\* working set.
C4_Witness ==
    /\ active
    /\ pc = "dispatch"
    /\ Status(items[batchStart + batchOffset + 1], phaseName) = "failed"
    /\ \E q \in QuestionIds :
          /\ Status(q, phaseName) = "completed"
          /\ ~Includes(items, q)

\* C5: a completed phase status stays completed in every step.
C5_CompletedIsMonotonic ==
    [][\A q \in QuestionIds, p \in PhaseIds :
          Status(q, p) = "completed" => Status(q, p)' = "completed"]_vars

\* A later run of a phase has returned, and a question it left out of its
\* working set is still completed in that phase.
C5_Witness ==
    /\ pc = "returned"
    /\ \E q \in QuestionIds :
          /\ ~Includes(items, q)
          /\ Status(q, phaseName) = "completed"

\* C6: a phase other than ingest is in_progress, completed or failed only if
\* its predecessor in the chain is completed.
C6_PrerequisiteCompleted ==
    \A q \in QuestionIds, k \in 2..Len(PhaseOrder) :
        Status(q, PhaseOrder[k]) \in {"in_progress", "completed", "failed"} =>
            Status(q, PhaseOrder[k - 1]) = "completed"

\* Every phase of the chain has run for some question, the last one being in
\* flight.
C6_Witness ==
    \E q \in QuestionIds :
        /\ Status(q, "evaluate") = "in_progress"
        /\ Status(q, "answer") = "completed"

\* The identifiers provider.ingest returns for the sessions of q.
AllDocumentIds(q) ==
    UNION {{providerDocumentIds(q, getHaystackSessions(q)[k])[d] :
                d \in 1..Len(providerDocumentIds(q, getHaystackSessions(q)[k]))} :
           k \in 1..Len(getHaystackSessions(q))}

\* C7: a completed ingest result holds, without duplicates, the identifiers
\* returned for all of the question's sessions.
C7_IngestResultIsUnion ==
    \A q \in QuestionIds :
        Status(q, "ingest") = "completed" =>
            LET ids == questions[q].phases.ingest.ingestResult.documentIds
            IN  /\ {ids[k] : k \in 1..Len(ids)} = AllDocumentIds(q)
                /\ \A a, b \in 1..Len(ids) : ids[a] = ids[b] => a = b

\* The sessions of a task's calls to provider.ingest that returned.
OkCalls(t) == IF t.st = "err" THEN SubSeq(t.calls, 1, Len(t.calls) - 1) ELSE t.calls

\* The completed sessions of the task's question when the task began.
SessionsBefore(t) ==
    SubSeq(CompletedSessions(t.context.item), 1,
           Len(CompletedSessions(t.context.item)) - Len(OkCalls(t)))

\* C8: the sessions an ingest task has passed to provider.ingest are the
\* sessions that were not completed when it began, each once and in session
\* order, up to the first failing one; the ones that returned are the tail of
\* completedSessions.
C8_IngestSkipsCompleted ==
    phaseName = "ingest" =>
        \A i \in TaskIds :
            LET t == tasks[i]
                cs == CompletedSessions(t.context.item)
                todo == SelectSeq(getHaystackSessions(t.context.item),
                                  LAMBDA s : ~Includes(SessionsBefore(t), s))
            IN  /\ Len(OkCalls(t)) <= Len(cs)
                /\ cs = SessionsBefore(t) \o OkCalls(t)
                /\ IsPrefix(t.calls, todo)

\* A resumed ingest task has called the provider for a session while an
\* earlier session was completed before it began.
C8_Witness ==
    /\ phaseName = "ingest"
    /\ \E i \in TaskIds :
          /\ Len(tasks[i].calls) >= 1
          /\ Len(SessionsBefore(tasks[i])) >= 1

\* C9: in every step the completedSessions of each question is a prefix of
\* its new value.
C9_CompletedSessionsAppendOnly ==
    [][\A q \in QuestionIds :
          IsPrefix(CompletedSessions(q), CompletedSessions(q)')]_vars

\* A resumed ingest task has recorded in_progress and the sessions completed
\* by the earlier attempt are still listed.
C9_Witness ==
    /\ phaseName = "ingest"
    /\ \E i \in TaskIds :
          /\ tasks[i].st = "running"
          /\ Len(tasks[i].calls) = 0
          /\ Status(tasks[i].context.item, "ingest") = "in_progress"
          /\ Len(CompletedSessions(tasks[i].context.item)) >= 1

\* C10: when executeBatched returns there is one result per item, and the
\* i-th result is the result of the task created for the i-th item.
C10_ResultsInInputOrder ==
    pc = "returned" =>
        /\ Len(allResults) = Len(items)
        /\ Len(tasks) = Len(items)
        /\ \A i \in 1..Len(items) :
              /\ tasks[i].context.item = items[i]
              /\ allResults[i] = tasks[i].result
              /\ allResults[i].questionId = items[i]

\* The executor has returned after a batch whose second task settled before
\* its first.
C10_Witness ==
    /\ pc = "returned"
    /\ Len(items) >= 2
    /\ tasks[2].settledAs < tasks[1].settledAs

\* The failed tasks of the batch the executor is at.
FailedInBatch == {i \in TaskIds : BatchOf(tasks[i]) = batchIdx /\ tasks[i].st = "err"}

\* C11: the task error the executor has thrown is the error of the failed
\* task of the batch with the smallest input index.
C11_FirstErrorByInputOrder ==
    (pc = "thrown" /\ thrown.kind = "task") =>
        \E i \in FailedInBatch :
            /\ thrown.questionId = tasks[i].context.item
            /\ \A j \in FailedInBatch : tasks[i].context.index <= tasks[j].context.index

\* Two tasks of the batch failed, the one with the larger index first, and
\* the error thrown is the one of the smaller index.
C11_Witness ==
    /\ pc = "thrown"
    /\ thrown.kind = "task"
    /\ \E i, j \in FailedInBatch :
          /\ tasks[i].context.index < tasks[j].context.index
          /\ tasks[j].settledAs < tasks[i].settledAs
          /\ thrown.questionId = tasks[i].context.item

\* C12: whenever executeBatched was entered with a concurrency that is not
\* positive, it has thrown the configuration error and created no task.
C12_NonPositiveConcurrencyThrows ==
    concurrency <= 0 =>
        /\ pc = "thrown"
        /\ thrown.kind = "config"
        /\ tasks = <<>>

\* The links of the priority chain, as (configuration, key) pairs.
PriorityChain ==
    << <<callerConfig, resolvePhase>>, <<callerConfig, "default">>,
       <<providerConfig, resolvePhase>>, <<providerConfig, "default">> >>

\* The links of the chain that hold a value, in priority order.
DefinedLinks == SelectSeq(PriorityChain, LAMBDA l : Defined(l[1], l[2]))

\* C13: the resolver returns the value of the first defined link of the
\* chain, and 1 when there is none; a caller value is returned whenever the
\* caller holds one for the phase or as default, and the caller default is
\* returned when the caller holds no value for the phase.
C13_PriorityChain ==
    resolved.called =>
        /\ resolved.value = IF Len(DefinedLinks) = 0 THEN 1
                            ELSE Head(DefinedLinks)[1][Head(DefinedLinks)[2]]
        /\ Defined(callerConfig, resolvePhase) =>
              resolved.value = callerConfig[resolvePhase]
        /\ (~Defined(callerConfig, resolvePhase) /\ Defined(callerConfig, "default")) =>
              resolved.value = callerConfig["default"]
        /\ (~Defined(callerConfig, resolvePhase) /\ ~Defined(callerConfig, "default")
              /\ Defined(providerConfig, resolvePhase)) =>
              resolved.value = providerConfig[resolvePhase]

\* The caller holds only a default, the provider another value for the
\* phase, and the caller default was returned.
C13_Witness ==
    /\ resolved.called
    /\ ~Defined(callerConfig, resolvePhase)
    /\ Defined(callerConfig, "default")
    /\ Defined(providerConfig, resolvePhase)
    /\ providerConfig[resolvePhase] # callerConfig["default"]
    /\ resolved.value = callerConfig["default"]

\* C14: the value the resolver returns is a positive integer.
C14_ResolvedIsPositive ==
    resolved.called => resolved.value >= 1

\* C15: in every step, for a completed entry (q, p): the entry is left as it
\* is, and no task of phase p for q is created, calls its collaborator or
\* returns.
C15_CompletedNeverRerun ==
    [][\A q \in QuestionIds, p \in PhaseIds :
          Status(q, p) = "completed" =>
              /\ questions'[q].phases[p] = questions[q].phases[p]
              /\ \A i \in 1..Len(tasks') :
                    (tasks'[i].context.item = q /\ phaseName' = p) =>
                        (i <= Len(tasks) /\ tasks'[i] = tasks[i])]_vars

\* A resumed answer phase has a task in flight while the answer of another
\* question, completed earlier, is outside its working set.
C15_Witness ==
    /\ pc = "await"
    /\ phaseName = "answer"
    /\ \E i \in TaskIds : tasks[i].st = "running"
    /\ \E q \in QuestionIds :
          /\ Status(q, "answer") = "completed"
          /\ ~Includes(items, q)

\* The payload a completed phase stores.
HasPayload(q, p) ==
    LET entry == questions[q].phases[p]
    IN  CASE p = "ingest" -> Has(entry, "ingestResult")
          [] p = "indexing" -> Has(entry, "completedAt")
          [] p = "search" -> Has(entry, "resultFile") /\ Has(entry, "results")
          [] p = "answer" -> Has(entry, "hypothesis")
          [] p = "evaluate" -> Has(entry, "score")

\* C16: when the executor has thrown a task's error, every task that succeeded
\* has its phase completed with its payload, every task that failed has its
\* phase failed and the sessions it ingested in completedSessions; the abort
\* itself leaves the checkpoint and the artifacts as they are.
C16_SiblingsKeepProgress ==
    /\ [](pc = "thrown" /\ thrown.kind = "task" =>
            \A i \in TaskIds :
                LET q == tasks[i].context.item
                IN  /\ tasks[i].st = "ok" =>
                          Status(q, phaseName) = "completed" /\ HasPayload(q, phaseName)
                    /\ tasks[i].st = "err" =>
                          /\ Status(q, phaseName) = "failed"
                          /\ \A k \in 1..Len(OkCalls(tasks[i])) :
                                Includes(CompletedSessions(q), OkCalls(tasks[i])[k]))
    /\ [][pc = "thrown" => (questions' = questions /\ files' = files)]_vars

\* The ingest executor has thrown: one question failed at a later session
\* with an earlier one recorded, and a sibling of its batch completed.
C16_Witness ==
    /\ pc = "thrown"
    /\ thrown.kind = "task"
    /\ phaseName = "ingest"
    /\ \E i, j \in TaskIds :
          /\ BatchOf(tasks[i]) = BatchOf(tasks[j])
          /\ tasks[i].st = "err"
          /\ Len(OkCalls(tasks[i])) >= 1
          /\ Len(CompletedSessions(tasks[i].context.item)) >= 1
          /\ tasks[j].st = "ok"
          /\ Status(tasks[j].context.item, "ingest") = "completed"

\* C17: a task that has returned has its phase completed; a task that has
\* thrown has its phase failed with the text of the error, and its error names
\* its question; a phase is in_progress only while its task is in flight.
C17_SettledTaskIsFinal ==
    /\ \A i \in TaskIds :
          LET q == tasks[i].context.item
          IN  /\ tasks[i].st = "ok" => Status(q, phaseName) = "completed"
              /\ tasks[i].st = "err" =>
                    /\ Status(q, phaseName) = "failed"
                    /\ Has(questions[q].phases[phaseName], "error")
                    /\ questions[q].phases[phaseName].error = ErrorText
                    /\ tasks[i].error.questionId = q
    /\ \A q \in QuestionIds, p \in PhaseIds :
          Status(q, p) = "in_progress" =>
              /\ phaseName = p
              /\ \E i \in TaskIds :
                    tasks[i].context.item = q /\ tasks[i].st = "running"

\* Of two tasks of a batch one has thrown, its phase holding the text of the
\* error, and one has returned.
C17_Witness ==
    /\ pc = "await"
    /\ \E i, j \in TaskIds :
          /\ tasks[i].st = "err"
          /\ questions[tasks[i].context.item].phases[phaseName].error = ErrorText
          /\ tasks[j].st = "ok"
          /\ Status(tasks[j].context.item, phaseName) = "completed"

\* C18: a phase becomes failed only in a step in which the task of that
\* question throws, so never by the stop signal being raised or observed; the
\* stop error names no question and is thrown only when no task has failed;
\* the error of a task is thrown exactly when a task has failed, and it names
\* the question of a failed task.
C18_StopIsNotAFailure ==
    /\ [](pc = "thrown" =>
            /\ thrown.kind = "stop" =>
                  /\ thrown.questionId = 0
                  /\ \A i \in TaskIds : tasks[i].st = "ok"
            /\ (\E i \in TaskIds : tasks[i].st = "err") => thrown.kind = "task"
            /\ thrown.kind = "task" =>
                  \E i \in TaskIds :
                      tasks[i].st = "err" /\ tasks[i].context.item = thrown.questionId)
    /\ [][\A q \in QuestionIds, p \in PhaseIds :
            (Status(q, p)' = "failed" /\ Status(q, p) # "failed") =>
                \E i \in TaskIds :
                    /\ tasks[i].context.item = q
                    /\ tasks[i].st = "running"
                    /\ tasks'[i].st = "err"]_vars

\* The stop error was thrown with work of the phase left to do, and no phase
\* of any question is failed.
C18_Witness ==
    /\ pc = "thrown"
    /\ thrown.kind = "stop"
    /\ \E q \in QuestionIds : Status(q, phaseName) = "pending"
    /\ \A q \in QuestionIds, p \in PhaseIds : Status(q, p) # "failed"

\* The tasks whose phase holds the result they settled with.
Recorded(ts, qs, phase) ==
    \A i \in 1..Len(ts) :
        /\ ts[i].st = "ok" => qs[ts[i].context.item].phases[phase].status = "completed"
        /\ ts[i].st = "err" => qs[ts[i].context.item].phases[phase].status = "failed"

\* C19: while the stop signal is set and a batch is being dispatched or
\* awaited, no step throws the stop error, removes a task or changes a
\* settled one; the executor leaves the batch only when all its tasks were
\* created and have settled, each with its result recorded.
C19_StopSparesRunningBatch ==
    [][(stop /\ pc \in {"dispatch", "await"} /\ pc' # "idle") =>
          /\ thrown'.kind # "stop"
          /\ Len(tasks') >= Len(tasks)
          /\ \A i \in TaskIds : Settled(tasks[i]) => tasks'[i] = tasks[i]
          /\ Recorded(tasks', questions', phaseName)
          /\ pc' \notin {"dispatch", "await"} =>
                /\ Len(tasks') = batchEnd
                /\ \A i \in 1..Len(tasks') : Settled(tasks'[i])]_vars

\* The stop signal is set, and the batch has run to its end: every task
\* settled, one of them successfully.
C19_Witness ==
    /\ stop
    /\ pc = "await"
    /\ Len(tasks) = batchEnd
    /\ \A i \in TaskIds : Settled(tasks[i])
    /\ \E i \in TaskIds : tasks[i].st = "ok" /\ BatchOf(tasks[i]) = batchIdx

\* C20: a completed evaluate phase holds score, label, explanation and
\* retrieval metrics; an evaluate task has returned, and its phase is
\* completed, only if both calls returned; if one of them threw, the task has
\* thrown and the phase is failed.
C20_EvaluateNeedsBoth ==
    /\ \A q \in QuestionIds :
          Status(q, "evaluate") = "completed" =>
              /\ Has(questions[q].phases.evaluate, "score")
              /\ Has(questions[q].phases.evaluate, "label")
              /\ Has(questions[q].phases.evaluate, "explanation")
              /\ Has(questions[q].phases.evaluate, "retrievalMetrics")
    /\ phaseName = "evaluate" =>
          \A i \in TaskIds :
              LET t == tasks[i]
              IN  /\ (t.st = "ok" \/ Status(t.context.item, "evaluate") = "completed") =>
                        (t.st = "ok" /\ t.judge = "ok" /\ t.metrics = "ok")
                  /\ (t.judge = "err" \/ t.metrics = "err") =>
                        (t.st = "err" /\ Status(t.context.item, "evaluate") = "failed")

\* The judge returned and the retrieval metrics threw: the phase is failed.
C20_Witness ==
    /\ phaseName = "evaluate"
    /\ \E i \in TaskIds :
          /\ tasks[i].judge = "ok"
          /\ tasks[i].metrics = "err"
          /\ Status(tasks[i].context.item, "evaluate") = "failed"

\* The retrieval metrics stored by a completed evaluate phase.
StoredMetrics(q) == questions[q].phases.evaluate.retrievalMetrics

\* C21: a completed evaluate phase of a question whose stored result list is
\* empty (or missing) holds no retrieval metrics, never metrics of zero; when
\* the list is not empty it holds k, hitAtK and mrr.
C21_EmptyResultsNoMetrics ==
    \A q \in QuestionIds :
        Status(q, "evaluate") = "completed" =>
            IF Len(searchResults(questions, q)) = 0
            THEN DOMAIN StoredMetrics(q) = DOMAIN NoMetrics
            ELSE /\ DOMAIN StoredMetrics(q) = {"k", "hitAtK", "mrr"}
                 /\ StoredMetrics(q).hitAtK = (StoredMetrics(q).mrr.num > 0)

\* Evaluate completed for a question with no retrieved result and for one
\* with retrieved results.
C21_Witness ==
    /\ \E q \in QuestionIds :
          /\ Status(q, "evaluate") = "completed"
          /\ Len(searchResults(questions, q)) = 0
          /\ DOMAIN StoredMetrics(q) = DOMAIN NoMetrics
    /\ \E q \in QuestionIds :
          /\ Status(q, "evaluate") = "completed"
          /\ Len(searchResults(questions, q)) > 0
          /\ StoredMetrics(q).hitAtK

\* The task whose step changed the checkpoint: created or advanced in the step.
Stepped(i) == i \notin DOMAIN tasks \/ tasks'[i] # tasks[i]

\* C22: a step that changes the checkpoint is the step of one task, and it
\* changes only the entry of that task's question, there only the state of
\* the running phase (and the session metadata when the phase is ingest);
\* the writes of two tasks in flight commute.
C22_TaskWritesOwnEntry ==
    /\ [][\A q \in QuestionIds :
              questions'[q] # questions[q] =>
                  /\ phaseName' = phaseName
                  /\ phaseName \in PhaseIds
                  /\ \E i \in DOMAIN tasks' :
                        /\ Stepped(i)
                        /\ tasks'[i].context.item = q
                        /\ \A j \in DOMAIN tasks' \ {i} : ~Stepped(j)
                  /\ \A o \in QuestionIds \ {q} : questions'[o] = questions[o]
                  /\ \A p \in PhaseIds \ {phaseName} :
                        questions'[q].phases[p] = questions[q].phases[p]
                  /\ phaseName # "ingest" => questions'[q].sessions = questions[q].sessions
                  /\ DOMAIN questions'[q] = DOMAIN questions[q]]_vars
    /\ [](\A i, j \in TaskIds :
              (i # j /\ tasks[i].st = "running" /\ tasks[j].st = "running") =>
                  LET a == tasks[i].context.item
                      b == tasks[j].context.item
                      done == [status |-> "completed", completedAt |-> Now]
                  IN  /\ a # b
                      /\ RecordFailed(RecordFailed(questions, phaseName, a), phaseName, b)
                           = RecordFailed(RecordFailed(questions, phaseName, b), phaseName, a)
                      /\ updatePhase(RecordFailed(questions, phaseName, a), b, phaseName, done)
                           = RecordFailed(updatePhase(questions, b, phaseName, done), phaseName, a))

\* Two tasks of one batch are in flight and one of them has written its
\* question's entry while the other question's entry is still in_progress.
C22_Witness ==
    /\ pc = "await"
    /\ \E i, j \in TaskIds :
          /\ i # j
          /\ BatchOf(tasks[i]) = BatchOf(tasks[j])
          /\ tasks[i].st = "ok"
          /\ tasks[j].st = "running"
          /\ Status(tasks[i].context.item, phaseName) = "completed"
          /\ Status(tasks[j].context.item, phaseName) = "in_progress"

\* C23: the phase runners run in the order of PhaseOrder, one after the
\* return of the other; once a runner has thrown the run is over: the tasks
\* created are those of the batches up to the throwing one, a failed task
\* always ends in a throw, and nothing happens until the run is invoked again.
C23_OrderedAndHalting ==
    /\ [](/\ pc \in {"check", "dispatch", "await", "delay", "thrown"} =>
                (phaseIdx <= Len(PhaseOrder) /\ phaseName = PhaseOrder[phaseIdx])
          /\ pc = "thrown" => ~active
          /\ (\E i \in TaskIds : tasks[i].st = "err") => pc \in {"await", "thrown"}
          /\ \A i \in TaskIds : BatchOf(tasks[i]) <= batchIdx)
    /\ [][/\ phaseIdx' # phaseIdx =>
                \/ phaseIdx' = phaseIdx + 1 /\ active /\ pc # "thrown"
                      /\ \A i \in TaskIds : tasks[i].st = "ok"
                \/ phaseIdx' = 1 /\ pc' = "idle" /\ tasks' = <<>>
          /\ pc = "thrown" =>
                \/ pc' = "thrown" /\ UNCHANGED <<questions, tasks, phaseIdx, batchIdx, active>>
                \/ ~active /\ active' /\ phaseIdx' = 1 /\ tasks' = <<>>
                      /\ UNCHANGED questions]_vars

\* A task of the first of several batches failed in a phase before the last:
\* the runner has thrown and the run is over.
C23_Witness ==
    /\ pc = "thrown"
    /\ thrown.kind = "task"
    /\ ~active
    /\ phaseIdx < Len(PhaseOrder)
    /\ batchIdx < totalBatches - 1
    /\ \E i \in TaskIds : tasks[i].st = "err"

\* The orchestrator is about to call a phase runner whose working set is empty.
EmptyWorkingSet ==
    /\ active
    /\ pc \in {"idle", "returned"}
    /\ phaseIdx <= Len(PhaseOrder)
    /\ Len(pendingQuestions(questions, files, PhaseOrder[phaseIdx])) = 0

\* C25: the step of a phase runner whose working set is empty returns to the
\* orchestrator, whether or not the stop signal is raised: the executor is
\* not entered, no task is created, and the checkpoint, the artifacts and the
\* provider's backend are unchanged.
C25_EmptyWorkingSetReturns ==
    [][(EmptyWorkingSet /\ active' /\ stop' = stop) =>
           /\ phaseIdx' = phaseIdx + 1
           /\ pc' = "idle"
           /\ phaseName' = "none"
           /\ tasks' = <<>>
           /\ allResults' = <<>>
           /\ thrown' = NoError
           /\ UNCHANGED <<questions, files, backend>>]_vars

\* A phase runner has returned on an empty working set while the stop signal
\* is raised, and the next one has an empty working set too.
C25_Witness ==
    /\ EmptyWorkingSet
    /\ stop
    /\ pc = "idle"
    /\ phaseIdx >= 2
    /\ tasks = <<>>
    /\ thrown = NoError

\* The prerequisite of a phase for a question: the phase before is completed,
\* and for answer the search result artifact exists, for evaluate a non-empty
\* hypothesis is stored.
Prerequisite(q, phase) ==
    CASE phase = "ingest" -> TRUE
      [] phase = "indexing" -> Status(q, "ingest") = "completed"
      [] phase = "search" -> Status(q, "indexing") = "completed"
      [] phase = "answer" ->
            /\ Status(q, "search") = "completed"
            /\ Has(questions[q].phases.search, "resultFile")
            /\ questions[q].phases.search.resultFile \in files
      [] phase = "evaluate" ->
            /\ Status(q, "answer") = "completed"
            /\ Has(questions[q].phases.answer, "hypothesis")
            /\ questions[q].phases.answer.hypothesis # ""

\* The step of the phase runner the orchestrator calls next (not a crash,
\* not the raising of the stop signal, not the loss of an artifact).
RunnerStep ==
    /\ active
    /\ pc \in {"idle", "returned"}
    /\ phaseIdx <= Len(PhaseOrder)
    /\ stop' = stop
    /\ files' = files
    /\ active' \/ pc' = "thrown"

\* C27: when a phase runner is called, every question whose phase is
\* in_progress or failed and whose prerequisite holds is in the working set
\* the runner hands to the executor; a runner that returns has created a task
\* for every question of its working set and each of them is completed.
C27_StaleIsRerun ==
    /\ [][\A q \in questionIds :
              (/\ RunnerStep
               /\ Status(q, PhaseOrder[phaseIdx]) \in {"in_progress", "failed"}
               /\ Prerequisite(q, PhaseOrder[phaseIdx])) =>
                  /\ phaseName' = PhaseOrder[phaseIdx]
                  /\ pc' \in {"check", "thrown"}
                  /\ Includes(items', q)]_vars
    /\ [](pc = "returned" =>
              /\ Len(tasks) = Len(items)
              /\ \A k \in 1..Len(items) :
                    /\ tasks[k].context.item = items[k]
                    /\ tasks[k].st = "ok"
                    /\ Status(items[k], phaseName) = "completed")

\* A runner after ingest has just entered the executor with a question left
\* in_progress by a crash and one left failed by an earlier attempt.
C27_Witness ==
    /\ pc = "check"
    /\ batchIdx = 0
    /\ tasks = <<>>
    /\ phaseName # "ingest"
    /\ \E a, b \in QuestionIds :
          /\ Includes(items, a)
          /\ Includes(items, b)
          /\ Status(a, phaseName) = "in_progress"
          /\ Status(b, phaseName) = "failed"

\* Every task of the batch the executor awaits has succeeded.
BatchSucceeded ==
    \A i \in TaskIds : BatchOf(tasks[i]) = batchIdx => tasks[i].st = "ok"

\* C30: when the wait for batch b ends, the executor waits the delay exactly
\* if every task of b succeeded, b is not the last batch and the delay is
\* positive; after the delay comes the stop check of batch b+1, before any
\* of its tasks is created.  The ingest runner's delay is 1000 ms, the delay
\* of the other runners is 0.
C30_DelayBetweenBatches ==
    /\ [][/\ (pc = "await" /\ pc' # "await" /\ (active' \/ pc' = "thrown")) =>
                (pc' = "delay" <=>
                    (BatchSucceeded /\ batchIdx + 1 < totalBatches /\ rateLimitMs > 0))
          /\ (pc = "delay" /\ pc' # "delay" /\ active') =>
                (pc' = "check" /\ batchIdx' = batchIdx + 1 /\ tasks' = tasks)
          /\ (pc' = "dispatch" /\ pc # "dispatch") => (pc = "check" /\ ~stop)]_vars
    /\ [](/\ phaseName = "ingest" => rateLimitMs = 1000
          /\ phaseName # "ingest" => rateLimitMs = 0
          /\ pc = "delay" => (BatchSucceeded /\ batchIdx + 1 < totalBatches))

\* The first batch of ingest has succeeded, another one remains, and the
\* executor waits 1000 ms.
C30_Witness ==
    /\ pc = "delay"
    /\ phaseName = "ingest"
    /\ rateLimitMs = 1000
    /\ batchIdx = 0
    /\ BatchSucceeded
    /\ Len(tasks) < Len(items)

\* C24: under repeated invocation with every call returning, eventually every
\* phase of every question is completed, and stays so.
C24_EventuallyAllCompleted ==
    <>[](\A q \in QuestionIds : \A p \in PhaseIds : Status(q, p) = "completed")

\* The candidates of the caller's subset that are not completed in the
\* phase and whose prerequisite holds, in benchmark order.
Eligible(phase) ==
    SelectSeq(benchmarkQuestions,
              LAMBDA q : /\ q \in questionIds
                         /\ Status(q, phase) # "completed"
                         /\ Prerequisite(q, phase))

\* C26: the working set a phase runner hands to the executor is the list of
\* the eligible candidates, and the runner returns at once exactly when there
\* is none; the tasks created are those of the working set, in its order,
\* and none is for a question outside the caller's subset.
C26_WorkingSetIsExact ==
    /\ [][RunnerStep =>
              IF Len(Eligible(PhaseOrder[phaseIdx])) = 0
              THEN pc' = "idle" /\ items' = <<>> /\ tasks' = <<>>
              ELSE /\ pc' \in {"check", "thrown"}
                   /\ phaseName' = PhaseOrder[phaseIdx]
                   /\ items' = Eligible(PhaseOrder[phaseIdx])]_vars
    /\ [](/\ Len(tasks) <= Len(items)
          /\ \A k \in 1..Len(tasks) : tasks[k].context.item = items[k]
          /\ \A k \in 1..Len(items) : items[k] \in questionIds)

\* The caller gave a proper subset; the answer runner has returned at once
\* because the search artifact of the only candidate is gone, and the
\* question stays with a completed search and an answer not completed.
C26_Witness ==
    /\ active
    /\ pc = "idle"
    /\ phaseIdx = 5
    /\ questionIds # QuestionIds
    /\ \E q \in questionIds :
          /\ Status(q, "search") = "completed"
          /\ Status(q, "answer") # "completed"
          /\ questions[q].phases.search.resultFile \notin files

\* The sessions of q the backend holds that completedSessions does not record.
Unrecorded(q) ==
    {s \in backend[q] : ~Includes(CompletedSessions(q), s)}

\* C28: every return of provider.ingest is recorded in completedSessions in
\* the step in which it returns, before the next call is issued; at every
\* point, so wherever the process dies, the backend holds at most one
\* session of a question that completedSessions does not record, and it is
\* the next session the loop has to send.
C28_AtMostOneUnrecorded ==
    /\ [](\A q \in QuestionIds :
              /\ Cardinality(Unrecorded(q)) <= 1
              /\ \A s \in Unrecorded(q) : s = Head(RemainingSessions(questions, q)))
    /\ [][\A i \in TaskIds :
              (i \in DOMAIN tasks' /\ Len(tasks'[i].calls) > Len(tasks[i].calls)
                   /\ tasks'[i].st = "running") =>
                  LET q == tasks[i].context.item
                      recorded == questions'[q].phases.ingest.completedSessions
                  IN  /\ recorded = Append(CompletedSessions(q), tasks'[i].calls[Len(tasks'[i].calls)])
                      /\ tasks'[i].calls[Len(tasks'[i].calls)] \in backend'[q]]_vars

\* The process died while a call of provider.ingest was in flight: the
\* backend holds a session after the recorded ones, and no run is active.
C28_Witness ==
    /\ ~active
    /\ tasks = <<>>
    /\ \E q \in QuestionIds :
          /\ Len(CompletedSessions(q)) > 0
          /\ Cardinality(Unrecorded(q)) = 1

\* The stored ingest result of q, if any.
StoredResult(qs, q) ==
    IF Has(qs[q].phases.ingest, "ingestResult")
    THEN qs[q].phases.ingest.ingestResult
    ELSE [documentIds |-> <<>>]

\* C29: when the ingest task of a question that holds a stored result
\* completes, the result it stores is the stored document identifiers
\* followed by those the task accumulated, and likewise for the task
\* identifiers; no step shortens or rewrites a stored result.
C29_MergeByConcatenation ==
    [][\A i \in TaskIds :
           LET q == tasks[i].context.item
               prior == StoredResult(questions, q)
               new == StoredResult(questions', q)
           IN  /\ (/\ phaseName = "ingest"
                   /\ i \in DOMAIN tasks'
                   /\ tasks[i].st = "running"
                   /\ tasks'[i].st = "ok") =>
                      /\ questions'[q].phases.ingest.status = "completed"
                      /\ new.documentIds
                            = prior.documentIds \o tasks[i].combinedResult.documentIds
                      /\ TaskIdsOf(new)
                            = TaskIdsOf(prior) \o tasks[i].combinedResult.taskIds
               /\ IsPrefix(prior.documentIds, new.documentIds)
               /\ IsPrefix(TaskIdsOf(prior), TaskIdsOf(new))]_vars

\* An ingest task has completed for a question that held a stored result:
\* the result now stored is longer than what the task accumulated, which is
\* not empty.
C29_Witness ==
    /\ phaseName = "ingest"
    /\ \E i \in TaskIds :
          /\ tasks[i].st = "ok"
          /\ Len(tasks[i].combinedResult.documentIds) > 0
          /\ Len(StoredResult(questions, tasks[i].context.item).documentIds)
                > Len(tasks[i].combinedResult.documentIds)
          /\ Len(TaskIdsOf(StoredResult(questions, tasks[i].context.item))) > 0

\* The batch-level observer calls made for batch b.
BatchCallsOf(name, b) ==
    SelectSeq(batchCalls, LAMBDA call : call[1] = name /\ call[2] = b)

\* C31: each task is reported to a per-task observer once, when it settles:
\* onTaskComplete if it succeeded, onError if it failed.  When executeBatched
\* has thrown a task's error, every task of the failing batch has been
\* reported so, onBatchStart was called for that batch and onBatchComplete
\* was not; the earlier batches have one call of each.
C31_ObserversBeforeThrow ==
    /\ \A i \in TaskIds :
          /\ tasks[i].st = "running" => tasks[i].observed = <<>>
          /\ tasks[i].st = "ok" => tasks[i].observed = <<"onTaskComplete">>
          /\ tasks[i].st = "err" => tasks[i].observed = <<"onError">>
    /\ (pc = "thrown" /\ thrown.kind = "task") =>
          /\ Len(tasks) = batchEnd
          /\ \A i \in TaskIds : Len(tasks[i].observed) = 1
          /\ Len(BatchCallsOf("onBatchStart", batchIdx)) = 1
          /\ Len(BatchCallsOf("onBatchComplete", batchIdx)) = 0
          /\ \A b \in 0..(batchIdx - 1) :
                /\ Len(BatchCallsOf("onBatchStart", b)) = 1
                /\ Len(BatchCallsOf("onBatchComplete", b)) = 1

\* executeBatched has thrown for a batch in which one task succeeded and
\* another failed.
C31_Witness ==
    /\ pc = "thrown"
    /\ thrown.kind = "task"
    /\ \E i, j \in TaskIds :
          /\ BatchOf(tasks[i]) = batchIdx
          /\ BatchOf(tasks[j]) = batchIdx
          /\ tasks[i].observed = <<"onTaskComplete">>
          /\ tasks[j].observed = <<"onError">>

\* The condition of the claim on the stored ingest result of question q.
StoredResultEmpty(q) ==
    \/ ~Has(questions[q].phases.ingest, "ingestResult")
    \/ /\ Len(questions[q].phases.ingest.ingestResult.documentIds) = 0
       /\ Len(TaskIdsOf(questions[q].phases.ingest.ingestResult)) = 0

\* C32: the indexing task of a question whose stored ingest result is missing
\* or has no document and no task identifiers is completed with no call of
\* awaitIndexing; every other indexing task has made exactly one call, with
\* the stored ingest result and the question's container tag, the phase is
\* in_progress while the call is pending, is completed only when the call
\* returned, and is failed when it threw.
C32_AwaitIndexingUnlessEmpty ==
    phaseName = "indexing" =>
        \A i \in DOMAIN tasks :
            LET q == tasks[i].context.item
                status == questions[q].phases.indexing.status
            IN  IF StoredResultEmpty(q)
                THEN /\ tasks[i].calls = <<>>
                     /\ tasks[i].st = "ok"
                     /\ status = "completed"
                ELSE /\ tasks[i].calls =
                            << [ingestResult |-> questions[q].phases.ingest.ingestResult,
                                containerTag |-> containerTag(q)] >>
                     /\ tasks[i].st = "running" => status = "in_progress"
                     /\ tasks[i].st = "ok" <=> status = "completed"
                     /\ tasks[i].st = "err" => status = "failed"

\* An indexing task completed without a call, and another one completed
\* after its call for a result that holds task identifiers only.
C32_Witness ==
    /\ phaseName = "indexing"
    /\ \E i \in DOMAIN tasks :
          StoredResultEmpty(tasks[i].context.item) /\ tasks[i].st = "ok"
    /\ \E i \in DOMAIN tasks :
          LET q == tasks[i].context.item
          IN  /\ ~StoredResultEmpty(q)
              /\ Len(questions[q].phases.ingest.ingestResult.documentIds) = 0
              /\ Len(tasks[i].calls) = 1

\* C34: with no caller configuration, the batch size a phase runner hands to
\* the executor is the one resolved from the concurrency the provider
\* declares: its value for the phase, else its general default, else 1.
C34_DeclaredDefaultsUsed ==
    (callerConfig = NoConfig /\ provider \in ProviderNames /\ Len(items) > 0) =>
        concurrency = resolveParallelism(phaseName, NoConfig, declaredConcurrency)

\* C35: whenever the search task of a question is at provider.search, the
\* question's ingest being completed (in this process or an earlier one), the
\* provider instance knows the bank or group of the question's container
\* tag, so that the search reaches the backend.
C35_SearchReachesGroup ==
    (phaseName = "search" /\ provider \in ProviderNames) =>
        \A i \in DOMAIN tasks :
            LET q == tasks[i].context.item
            IN  (tasks[i].st = "running"
                 /\ questions[q].phases.ingest.status = "completed") =>
                    containerTag(q) \in groupIds

\* C36: every session recorded in a question's completedSessions is held by
\* the backend, and a question whose ingest phase is completed has all its
\* sessions in the backend.
C36_CompletedSessionsAccepted ==
    provider \in ProviderNames =>
        \A q \in QuestionIds :
            /\ \A k \in DOMAIN questions[q].phases.ingest.completedSessions :
                  questions[q].phases.ingest.completedSessions[k] \in backend[q]
            /\ questions[q].phases.ingest.status = "completed" =>
                  \A k \in DOMAIN getHaystackSessions(q) :
                      getHaystackSessions(q)[k] \in backend[q]

\* Search task i has written its artifact and not yet recorded it.
WrittenUnrecorded(i) ==
    /\ phaseName = "search"
    /\ i \in DOMAIN tasks
    /\ tasks[i].st = "running"
    /\ SearchWritten(tasks[i])

\* C33: a question whose search phase is completed holds the path of its
\* artifact in the checkpoint and the artifact is on disk; and when the
\* process dies between the write of the artifact and the update of the
\* checkpoint, the search phase is not completed and the question is in the
\* working set of the next search.
C33_ArtifactBeforeCompleted ==
    /\ [](\A q \in QuestionIds :
            questions[q].phases.search.status = "completed" =>
                /\ Has(questions[q].phases.search, "resultFile")
                /\ questions[q].phases.search.resultFile = ResultFile(q)
                /\ ResultFile(q) \in files)
    /\ [][\A i \in 1..NumQuestions :
            (WrittenUnrecorded(i) /\ tasks' = <<>>) =>
                LET q == tasks[i].context.item
                IN  /\ questions'[q].phases.search.status = "in_progress"
                    /\ ResultFile(q) \in files'
                    /\ Includes(pendingQuestions(questions', files', "search"), q)]_vars

\* One search task has recorded its artifact while another has written its
\* own and not yet recorded it.
C33_Witness ==
    /\ \E i \in DOMAIN tasks : WrittenUnrecorded(i)
    /\ \E q \in QuestionIds :
          /\ questions[q].phases.search.status = "completed"
          /\ ResultFile(q) \in files

\* C37: a phase whose status is completed carries no last-error message.
C37_CompletedHasNoError ==
    \A q \in QuestionIds : \A k \in DOMAIN PhaseOrder :
        questions[q].phases[PhaseOrder[k]].status = "completed" =>
            ~Has(questions[q].phases[PhaseOrder[k]], "error")

\* C39: within one invocation of executeBatched the tasks created are those
\* of the first items of the list, one per position, each with its position
\* as index and the length of the list as total; every item has its task
\* when the invocation returns; when it throws for a failed task the tasks
\* are those of the batches up to the failing one, and when it throws for the
\* stop signal those of the batches before the check.
C39_DispatchedOncePrefix ==
    /\ Len(tasks) <= Len(items)
    /\ \A i \in DOMAIN tasks :
          tasks[i].context = [item |-> items[i], index |-> i - 1, total |-> Len(items)]
    /\ \A i, j \in DOMAIN tasks :
          tasks[i].context.item = tasks[j].context.item => i = j
    /\ pc = "returned" => Len(tasks) = Len(items)
    /\ (pc = "thrown" /\ thrown.kind = "task") =>
          /\ Len(tasks) = batchEnd
          /\ \E i \in (batchStart + 1)..batchEnd : tasks[i].st = "err"
    /\ (pc = "thrown" /\ thrown.kind = "stop") => Len(tasks) = batchStart
    /\ (pc = "thrown" /\ thrown.kind = "config") => Len(tasks) = 0

\* The invocation threw for the stop signal after a first batch, with an
\* item left that was never dispatched.
C39_Witness ==
    /\ pc = "thrown"
    /\ thrown.kind = "stop"
    /\ Len(tasks) > 0
    /\ Len(tasks) < Len(items)

\* C38: every call of GraphitiProvider.awaitIndexing returns, the backend
\* answering the polls and the episode count settling (at zero when no
\* session was accepted); and a call given a group has returned only when
\* the last four answered polls saw the same positive count.
C38_AwaitIndexingTerminates ==
    /\ <>(poll.pc = "returned")
    /\ [](poll.pc = "returned" /\ Len(TaskIdsOf(poll.result)) > 0 =>
            /\ Len(poll.seen) = SeenKept
            /\ \A k \in 1..SeenKept : poll.seen[k] = poll.seen[1] /\ poll.seen[k] > 0)

====
